---- MODULE Spec2Model ----
(***************************************************************************)
(* Capibara: fingerprinting, script cache, static validation and sandboxed *)
(* execution, modelled from src/capibara/{sdk/client.py, utils/runner.py,   *)
(* utils/security.py, utils/fingerprint.py, core/service.py}.               *)
(*                                                                         *)
(* Python strings on which the code does character-level work (prompts,    *)
(* stopwords, keywords, dependency specifiers, module names) are sequences *)
(* of one-character strings; Chars gives the characters of the literals    *)
(* the model uses.                                                         *)
(***************************************************************************)
EXTENDS Naturals, Sequences, FiniteSets, TLC

VARIABLES
  cache_dir,   \* <work_dir>/.capibara/scripts: directory name -> (file name -> content)
  pc,          \* per caller: the statement of run() / run_script() it is at
  call,        \* per caller: the arguments and locals of the run() in progress
  log,         \* per caller: the steps the run() in progress has taken, in order
  temp_dirs,   \* the callers whose tempfile.TemporaryDirectory exists on disk
  child,       \* per caller: the state of the script subprocess
  rs,          \* per caller: what run_script returned (success, result, error)
  ret,         \* per caller: what run() gave its caller
  clock,       \* datetime.utcnow(), as a counter of generations
  ncalls       \* number of run() calls started

vars == <<cache_dir, pc, call, log, temp_dirs, child, rs, ret, clock, ncalls>>

(***************************************************************************)
(* Bounds                                                                  *)
(***************************************************************************)
MaxCalls == 2

Procs == {1, 2}

(***************************************************************************)
(* String literals as character sequences                                  *)
(***************************************************************************)
Chars ==
  ("video" :> <<"v","i","d","e","o">>) @@
  ("vicreatedeo" :> <<"v","i","c","r","e","a","t","e","d","e","o">>) @@
  ("price" :> <<"p","r","i","c","e">>) @@
  ("add" :> <<"a","d","d">>) @@
  ("add|{}|x" :> <<"a","d","d","|","{","}","|","x">>) @@
  ("x|{}|python" :> <<"x","|","{","}","|","p","y","t","h","o","n">>) @@
  ("i wmakeant" :> <<"i"," ","w","m","a","k","e","a","n","t">>) @@
  ("crecreateate" :> <<"c","r","e","c","r","e","a","t","e","a","t","e">>) @@
  ("Please  add" :> <<"P","l","e","a","s","e"," "," ","a","d","d">>) @@
  ("Eval (x)" :> <<"E","v","a","l"," ","(","x",")">>) @@
  ("os.remove(exec(x))" :> <<"o","s",".","r","e","m","o","v","e","(","e","x","e","c","(","x",")",")">>) @@
  ("moviepy==1.0.3" :> <<"m","o","v","i","e","p","y","=","=","1",".","0",".","3">>) @@
  ("requests==2.31.0" :> <<"r","e","q","u","e","s","t","s","=","=","2",".","3","1",".","0">>) @@
  ("Xlib" :> <<"X","l","i","b">>) @@
  ("xlib" :> <<"x","l","i","b">>) @@
  ("python-xlib==0.33" :> <<"p","y","t","h","o","n","-","x","l","i","b","=","=","0",".","3","3">>) @@
  ("python-Xlib==0.33" :> <<"p","y","t","h","o","n","-","X","l","i","b","=","=","0",".","3","3">>) @@
  ("first\nsecond" :> <<"f","i","r","s","t","\n","s","e","c","o","n","d">>) @@
  ("note\n# two" :> <<"n","o","t","e","\n","#"," ","t","w","o">>) @@
  ("" :> <<>>) @@
  ("typing" :> <<"t","y","p","i","n","g">>) @@
  ("moviepy" :> <<"m","o","v","i","e","p","y">>) @@
  ("requests" :> <<"r","e","q","u","e","s","t","s">>) @@
  ("json" :> <<"j","s","o","n">>) @@
  ("sys" :> <<"s","y","s">>) @@
  ("pathlib" :> <<"p","a","t","h","l","i","b">>) @@
  ("python" :> <<"p","y","t","h","o","n">>) @@
  ("1.0.0" :> <<"1",".","0",".","0">>)

\* str.lower() on one character
upper_case == <<"A","B","C","D","E","F","G","H","I","J","K","L","M","N","O","P","Q","R","S","T","U","V","W","X","Y","Z">>
lower_case == <<"a","b","c","d","e","f","g","h","i","j","k","l","m","n","o","p","q","r","s","t","u","v","w","x","y","z">>

lower_char(c) ==
  IF \E i \in 1..26 : upper_case[i] = c
  THEN lower_case[CHOOSE i \in 1..26 : upper_case[i] = c]
  ELSE c

lower(s) == [i \in 1..Len(s) |-> lower_char(s[i])]

\* the characters \s matches
whitespace == {" ", "\n", "\t"}

\* the characters \w matches, among those the model uses
word_chars ==
  {"a","b","c","d","e","f","g","h","i","j","k","l","m","n","o","p","q","r","s",
   "t","u","v","w","x","y","z","0","1","2","3","4","5","6","7","8","9","_",
   "A","B","C","D","E","F","G","H","I","J","K","L","M","N","O","P","Q","R","S",
   "T","U","V","W","X","Y","Z"}

\* does s begin with w
StartsWith(s, w) == Len(s) >= Len(w) /\ SubSeq(s, 1, Len(w)) = w

\* w in s
Contains(s, w) == \E i \in 1..(Len(s) - Len(w) + 1) : SubSeq(s, i, i + Len(w) - 1) = w

\* the rest of s from position i on
From(s, i) == SubSeq(s, i, Len(s))

(***************************************************************************)
(* utils/fingerprint.py                                                    *)
(***************************************************************************)
stopwords ==
  << <<"p","l","e","a","s","e">>,
     <<"c","a","n"," ","y","o","u">>,
     <<"c","o","u","l","d"," ","y","o","u">>,
     <<"w","o","u","l","d"," ","y","o","u">>,
     <<"i"," ","n","e","e","d">>,
     <<"i"," ","w","a","n","t">>,
     <<"h","e","l","p"," ","m","e">>,
     <<"c","r","e","a","t","e">>,
     <<"m","a","k","e">>,
     <<"g","e","n","e","r","a","t","e">>,
     <<"b","u","i","l","d">>,
     <<"w","r","i","t","e">> >>

\* str.replace(w, ""): remove the non-overlapping occurrences of w, left to right
RECURSIVE str_remove(_, _)
str_remove(s, w) ==
  IF Len(s) < Len(w) THEN s
  ELSE IF StartsWith(s, w) THEN str_remove(From(s, Len(w) + 1), w)
  ELSE <<Head(s)>> \o str_remove(Tail(s), w)

\* the loop over the stopwords, in the order `order` (a sequence of indices)
RECURSIVE remove_stopwords(_, _)
remove_stopwords(s, order) ==
  IF order = <<>> THEN s
  ELSE remove_stopwords(str_remove(s, stopwords[Head(order)]), Tail(order))

\* re.sub(r'\s+', ' ', s)
RECURSIVE collapse_ws(_)
collapse_ws(s) ==
  IF s = <<>> THEN <<>>
  ELSE IF Head(s) \in whitespace
       THEN IF Len(s) > 1 /\ s[2] \in whitespace
            THEN collapse_ws(Tail(s))
            ELSE <<" ">> \o collapse_ws(Tail(s))
       ELSE <<Head(s)>> \o collapse_ws(Tail(s))

\* str.strip()
RECURSIVE strip(_)
strip(s) ==
  IF s = <<>> THEN s
  ELSE IF Head(s) \in whitespace THEN strip(Tail(s))
  ELSE IF s[Len(s)] \in whitespace THEN strip(SubSeq(s, 1, Len(s) - 1))
  ELSE s

\* the order in which this interpreter iterates the stopword set
stopword_order == <<1, 2, 3, 4, 5, 6, 7, 8, 9, 10, 11, 12>>

\* The stopwords are a set of str: the order of `for stopword in stopwords`
\* follows the string hashes, which each interpreter start draws anew
\* (PYTHONHASHSEED). Some of the orders an interpreter can have:
stopword_orders ==
  { stopword_order,
    <<12, 11, 10, 9, 8, 7, 6, 5, 4, 3, 2, 1>>,
    <<8, 9, 1, 2, 3, 4, 5, 6, 7, 10, 11, 12>> }

\* normalize_prompt on the characters of a prompt, in an interpreter that
\* iterates the stopwords in the order `order`
normalize_prompt_in(s, order) ==
  strip(collapse_ws(remove_stopwords(lower(s), order)))

normalize_prompt(prompt) ==
  strip(collapse_ws(remove_stopwords(lower(Chars[prompt]), stopword_order)))

\* A context is a Python dict, given as its items in insertion order; an item
\* is [k |-> key, v |-> value] with one-character keys and values, and the
\* value "<set>" stands for a Python set object, which json cannot serialize.
\* An item whose value is itself a dict is [k |-> key, v |-> "<dict>", items |->
\* the items of that dict].
is_dict_item(item) == "items" \in DOMAIN item

json_serializable(context) == \A i \in 1..Len(context) : context[i].v # "<set>"

\* the order of the one-character keys under Python's string comparison
key_order == <<"a", "b", "c">>

\* mutant of sort_items: json.dumps without sort_keys=True
sort_keys_off(items) == items

\* the items of a dict sorted by key (sort_keys=True)
RECURSIVE sort_items(_)
sort_items(items) ==
  IF items = <<>> THEN <<>>
  ELSE LET m == CHOOSE i \in 1..Len(items) :
                  \A j \in 1..Len(items) :
                     \/ items[i].k = items[j].k
                     \/ \E a \in 1..Len(key_order) :
                           /\ key_order[a] = items[i].k
                           /\ \E b \in (a+1)..Len(key_order) :
                                 key_order[b] = items[j].k
       IN <<items[m]>> \o
          sort_items([i \in 1..(Len(items) - 1) |->
                         IF i < m THEN items[i] ELSE items[i + 1]])

\* json.dumps(context, sort_keys=True, separators=(',', ':')): the items of an
\* object, those of a nested object sorted and written the same way
RECURSIVE dump_items(_)
dump_items(items) ==
  IF items = <<>> THEN <<>>
  ELSE <<"\"", items[1].k, "\"", ":">>
       \o (IF is_dict_item(items[1])
           THEN <<"{">> \o dump_items(sort_items(items[1].items)) \o <<"}">>
           ELSE <<items[1].v>>)
       \o (IF Len(items) > 1 THEN <<",">> ELSE <<>>)
       \o dump_items(Tail(items))

normalize_context(context) == <<"{">> \o dump_items(sort_items(context)) \o <<"}">>

\* hashlib.sha256(content).hexdigest()[:16], taken to be free of collisions:
\* the digest is identified with the content it was computed from
sha256_16(content) == content

generate_fingerprint(prompt, context, language) ==
  sha256_16(normalize_prompt(prompt) \o <<"|">> \o normalize_context(context)
            \o <<"|">> \o Chars[language] \o <<"|">> \o Chars["1.0.0"])

\* generate_fingerprint in an interpreter that iterates the stopwords in the
\* order `order`
generate_fingerprint_in(prompt, context, language, order) ==
  sha256_16(normalize_prompt_in(Chars[prompt], order) \o <<"|">>
            \o normalize_context(context)
            \o <<"|">> \o Chars[language] \o <<"|">> \o Chars["1.0.0"])

(***************************************************************************)
(* core/service.py: the generator                                          *)
(***************************************************************************)
video_keywords ==
  { <<"v","i","d","e","o">>,
    <<"c","o","n","c","a","t","e","n","a","t","e">>,
    <<"m","o","v","i","e","p","y">>,
    <<"m","p","4">> }

api_keywords ==
  { <<"m","e","r","c","a","d","o","l","i","b","r","e">>,
    <<"m","e","r","c","a","d","o"," ","l","i","b","r","e">>,
    <<"a","p","i">>,
    <<"p","r","i","c","e">>,
    <<"i","t","e","m">> }

\* MockLLM.generate_script: the template chosen by keyword in the lowered prompt
select_template(prompt) ==
  LET prompt_lower == lower(Chars[prompt]) IN
  IF \E k \in video_keywords : Contains(prompt_lower, k) THEN "video_concat"
  ELSE IF \E k \in api_keywords : Contains(prompt_lower, k) THEN "mercadolibre_api"
  ELSE "default"

\* the script text of a template; only the default template embeds the prompt
\* (in the comment line "# Prompt: ..."), the two others are fixed texts
template_script(t, prompt) ==
  [template |-> t, prompt |-> IF t = "default" THEN prompt ELSE ""]

template_requirements(t) ==
  CASE t = "video_concat" -> "moviepy==1.0.3"
    [] t = "mercadolibre_api" -> "requests==2.31.0"
    [] OTHER -> ""

\* the README text, as the sequence of its parts: fixed for the two named
\* templates, quoting the prompt in the default one; never empty
template_readme(t, prompt) ==
  CASE t = "video_concat" -> <<"# Video Concatenation Script">>
    [] t = "mercadolibre_api" -> <<"# MercadoLibre API Script">>
    [] OTHER -> <<"# Generated Script", prompt>>

\* the modules a template's script imports (root names)
template_imports(t) ==
  CASE t = "video_concat" -> {"json", "sys", "pathlib", "moviepy"}
    [] t = "mercadolibre_api" -> {"json", "sys", "requests", "typing"}
    [] OTHER -> {"json", "sys"}

\* json.dumps(context, sort_keys=True) with the default separators ", " and
\* ": ": the items of an object
RECURSIVE dump_items_default(_)
dump_items_default(items) ==
  IF items = <<>> THEN <<>>
  ELSE <<"\"", items[1].k, "\"", ":", " ">>
       \o (IF is_dict_item(items[1])
           THEN <<"{">> \o dump_items_default(sort_items(items[1].items)) \o <<"}">>
           ELSE <<items[1].v>>)
       \o (IF Len(items) > 1 THEN <<",", " ">> ELSE <<>>)
       \o dump_items_default(Tail(items))

\* CapibaraCore._generate_fingerprint: the prompt as it was given
_generate_fingerprint(prompt, context, language) ==
  sha256_16(Chars[prompt] \o <<"|">>
            \o <<"{">> \o dump_items_default(sort_items(context)) \o <<"}">>
            \o <<"|">> \o Chars[language] \o <<"|">> \o Chars["1.0.0"])

\* CapibaraCore._hash_prompt
_hash_prompt(prompt) == sha256_16(strip(lower(Chars[prompt])))

\* A datetime value, by the instant it names (ScriptManifest.created_at)
Datetime(t) == [type |-> "datetime", t |-> t]

\* CapibaraCore.generate_script: the response for a request at time `now`;
\* llm_ok is whether the LLM call came back without raising
generate_script(prompt, context, language, now, llm_ok) ==
  LET t == select_template(prompt)
      requirements == template_requirements(t)
  IN IF llm_ok
     THEN [status |-> "ok",
           script |-> template_script(t, prompt),
           manifest |-> [fingerprint |-> _generate_fingerprint(prompt, context, language),
                         prompt_sha |-> _hash_prompt(prompt),
                         entry |-> "script.py",
                         language |-> language,
                         deps |-> IF requirements # "" THEN <<requirements>> ELSE <<>>,
                         allow |-> [network |-> Contains(Chars[requirements], Chars["requests"]),
                                    fs |-> <<>>],
                         template_version |-> "1.0.0",
                         created_at |-> Datetime(now)],
           requirements |-> requirements,
           readme |-> template_readme(t, prompt),
           error |-> "None"]
     ELSE [status |-> "error",
           script |-> "",
           manifest |-> [fingerprint |-> <<>>,
                         prompt_sha |-> <<>>,
                         entry |-> "script.py",
                         language |-> language,
                         deps |-> <<>>,
                         allow |-> [network |-> FALSE, fs |-> <<>>],
                         template_version |-> "1.0.0",
                         created_at |-> Datetime(now)],
           requirements |-> "",
           readme |-> <<>>,
           error |-> "llm failure"]

(***************************************************************************)
(* utils/security.py: SecurityManager                                      *)
(***************************************************************************)
allowed_imports ==
  {"json", "sys", "os", "pathlib", "datetime", "time", "math", "random",
   "collections", "itertools", "functools", "operator", "re", "string",
   "urllib", "http", "base64", "hashlib", "uuid", "tempfile", "shutil",
   "zipfile", "tarfile", "csv", "xml", "html", "email", "logging",
   "subprocess", "threading", "multiprocessing", "queue", "socket", "ssl",
   "gzip", "bz2", "lzma", "pickle", "copy", "warnings", "numpy", "pandas",
   "matplotlib", "seaborn", "scipy", "sklearn", "requests", "urllib3", "httpx",
   "moviepy", "PIL", "opencv", "cv2", "yaml", "toml", "configparser",
   "argparse", "click"}

\* each pattern by its regular expression, its shape and its literal part:
\*   call  : lit \s* \(          callw : lit \w* \s* \(
\*   open  : open \s* \( \s* ['"] [^'"]* lit
blocked_patterns ==
  << [re |-> "__import__\\s*\\(", kind |-> "call", lit |-> <<"_","_","i","m","p","o","r","t","_","_">>],
     [re |-> "exec\\s*\\(", kind |-> "call", lit |-> <<"e","x","e","c">>],
     [re |-> "eval\\s*\\(", kind |-> "call", lit |-> <<"e","v","a","l">>],
     [re |-> "compile\\s*\\(", kind |-> "call", lit |-> <<"c","o","m","p","i","l","e">>],
     [re |-> "open\\s*\\(\\s*['\\\"][^'\\\"]*\\.\\./", kind |-> "open", lit |-> <<".",".","/">>],
     [re |-> "open\\s*\\(\\s*['\\\"][^'\\\"]*\\.\\.\\\\", kind |-> "open", lit |-> <<".",".","\\">>],
     [re |-> "subprocess\\.run\\s*\\(", kind |-> "call", lit |-> <<"s","u","b","p","r","o","c","e","s","s",".","r","u","n">>],
     [re |-> "os\\.system\\s*\\(", kind |-> "call", lit |-> <<"o","s",".","s","y","s","t","e","m">>],
     [re |-> "os\\.popen\\s*\\(", kind |-> "call", lit |-> <<"o","s",".","p","o","p","e","n">>],
     [re |-> "os\\.exec\\w*\\s*\\(", kind |-> "callw", lit |-> <<"o","s",".","e","x","e","c">>],
     [re |-> "os\\.spawn\\w*\\s*\\(", kind |-> "callw", lit |-> <<"o","s",".","s","p","a","w","n">>],
     [re |-> "os\\.fork\\s*\\(", kind |-> "call", lit |-> <<"o","s",".","f","o","r","k">>],
     [re |-> "os\\.kill\\s*\\(", kind |-> "call", lit |-> <<"o","s",".","k","i","l","l">>],
     [re |-> "os\\.remove\\s*\\(", kind |-> "call", lit |-> <<"o","s",".","r","e","m","o","v","e">>],
     [re |-> "os\\.unlink\\s*\\(", kind |-> "call", lit |-> <<"o","s",".","u","n","l","i","n","k">>],
     [re |-> "os\\.rmdir\\s*\\(", kind |-> "call", lit |-> <<"o","s",".","r","m","d","i","r">>],
     [re |-> "os\\.removedirs\\s*\\(", kind |-> "call", lit |-> <<"o","s",".","r","e","m","o","v","e","d","i","r","s">>],
     [re |-> "shutil\\.rmtree\\s*\\(", kind |-> "call", lit |-> <<"s","h","u","t","i","l",".","r","m","t","r","e","e">>],
     [re |-> "shutil\\.move\\s*\\(", kind |-> "call", lit |-> <<"s","h","u","t","i","l",".","m","o","v","e">>],
     [re |-> "shutil\\.copy\\s*\\(", kind |-> "call", lit |-> <<"s","h","u","t","i","l",".","c","o","p","y">>],
     [re |-> "shutil\\.copytree\\s*\\(", kind |-> "call", lit |-> <<"s","h","u","t","i","l",".","c","o","p","y","t","r","e","e">>] >>

RECURSIVE skip(_, _)
skip(s, class) ==
  IF s # <<>> /\ Head(s) \in class THEN skip(Tail(s), class) ELSE s

\* does s begin with "(" after optional whitespace
opens_paren(s) == LET r == skip(s, whitespace) IN r # <<>> /\ Head(r) = "("

\* re.match of a pattern at the start of s
match_at(pat, s) ==
  CASE pat.kind = "call" ->
         StartsWith(s, pat.lit) /\ opens_paren(From(s, Len(pat.lit) + 1))
    [] pat.kind = "callw" ->
         StartsWith(s, pat.lit)
         /\ opens_paren(skip(From(s, Len(pat.lit) + 1), word_chars))
    [] pat.kind = "open" ->
         /\ StartsWith(s, <<"o","p","e","n">>)
         /\ opens_paren(From(s, 5))
         /\ LET q == skip(Tail(skip(From(s, 5), whitespace)), whitespace)
            IN /\ q # <<>>
               /\ Head(q) \in {"'", "\""}
               /\ \E k \in 2..Len(q) :
                     /\ \A j \in 2..(k - 1) : q[j] \notin {"'", "\""}
                     /\ StartsWith(From(q, k), pat.lit)

\* re.search(pattern, text, re.IGNORECASE) on a character sequence
re_search(pat, text) ==
  LET t == lower(text) IN \E i \in 1..Len(t) : match_at(pat, From(t, i))

\* the texts re.search looks through in a script: the fixed text of the three
\* templates matches no pattern, so a match lies inside the prompt the default
\* template embeds; in a source text it lies inside an expression statement
\* (an import statement has no parenthesis after a name)
searched_texts(script) ==
  CASE script.template = "default" -> {Chars[script.prompt]}
    [] script.template = "source" ->
         {Chars[script.body[i].text] :
            i \in {j \in 1..Len(script.body) : script.body[j].stmt = "expr"}}
    [] OTHER -> {}

\* mutant of script_matches: re.search without re.IGNORECASE
script_matches_case_sensitive(pat, script) ==
  \E text \in searched_texts(script) :
    \E i \in 1..Len(text) : match_at(pat, From(text, i))

\* re.search(pattern, script, re.IGNORECASE)
script_matches(pat, script) ==
  \E text \in searched_texts(script) : re_search(pat, text)

\* A script is one of the three texts the generator's templates give (the
\* default one embedding the prompt), or a source text given statement by
\* statement, [template |-> "source", prompt |-> "", body |-> statements]:
\*   import a.b        [stmt |-> "import", module |-> <<"a", "b">>, level |-> 0]
\*   from a.b import c [stmt |-> "from", module |-> <<"a", "b">>, level |-> 0]
\*   from . import c   [stmt |-> "from", module |-> <<>>, level |-> 1]
\*   def f(:           [stmt |-> "invalid", module |-> <<>>, level |-> 0]
\*   Eval (x)          [stmt |-> "expr", text |-> "Eval (x)"]
Import(module) == [stmt |-> "import", module |-> module, level |-> 0]

ImportFrom(module, level) == [stmt |-> "from", module |-> module, level |-> level]

invalid_statement == [stmt |-> "invalid", module |-> <<>>, level |-> 0]

Expr(text) == [stmt |-> "expr", text |-> text]

source_script(body) == [template |-> "source", prompt |-> "", body |-> body]

\* str.split('\n')
RECURSIVE split_lines(_)
split_lines(s) ==
  IF \A i \in 1..Len(s) : s[i] # "\n" THEN <<s>>
  ELSE LET i == CHOOSE k \in 1..Len(s) :
                  s[k] = "\n" /\ \A j \in 1..(k - 1) : s[j] # "\n"
       IN <<SubSeq(s, 1, i - 1)>> \o split_lines(From(s, i + 1))

\* the statements a line of the model can be
simple_statements == { <<"p","a","s","s">> }

\* a line that follows a line break inside the prompt of the default template,
\* whose "# Prompt:" comment stands in a block indented by 8 spaces: the parser
\* takes a blank line, a comment, or a statement at the indentation of the block
continuation_parses(l) ==
  LET t == skip(l, {" "}) IN
    \/ t = <<>>
    \/ Head(t) = "#"
    \/ (Len(l) - Len(t) = 8 /\ t \in simple_statements)

\* ast.parse(script): does the source parse (False: SyntaxError)
parses(script) ==
  CASE script.template = "source" ->
         \A i \in 1..Len(script.body) : script.body[i].stmt # "invalid"
    [] script.template = "default" ->
         LET lines == split_lines(Chars[script.prompt])
         IN \A i \in 2..Len(lines) : continuation_parses(lines[i])
    [] OTHER -> TRUE

\* SecurityManager._extract_imports: the root module of every import and of
\* every from-import that names a module
_extract_imports(script) ==
  IF script.template = "source"
  THEN {script.body[i].module[1] :
          i \in {j \in 1..Len(script.body) :
                   /\ script.body[j].stmt \in {"import", "from"}
                   /\ script.body[j].module # <<>>}}
  ELSE template_imports(script.template)

\* SecurityManager._is_import_allowed: `import_name in dep.lower()`
_is_import_allowed(import_name, manifest) ==
  \/ import_name \in allowed_imports
  \/ \E i \in 1..Len(manifest.deps) :
        Contains(lower(Chars[manifest.deps[i]]), Chars[import_name])

\* a set of strings as a sequence, in some fixed order
RECURSIVE SetToSeq(_)
SetToSeq(S) ==
  IF S = {} THEN <<>> ELSE LET x == CHOOSE y \in S : TRUE IN <<x>> \o SetToSeq(S \ {x})

\* mutant of validate_script: `except SyntaxError: pass`, a source that does
\* not parse adds no violation
validate_script_syntax_passed(script, manifest) ==
  LET hits == SelectSeq([i \in 1..Len(blocked_patterns) |-> i],
                        LAMBDA i : script_matches(blocked_patterns[i], script))
      bad  == IF parses(script)
              THEN {m \in _extract_imports(script) : ~_is_import_allowed(m, manifest)}
              ELSE {}
  IN [i \in 1..Len(hits) |->
        [violation |-> "Blocked pattern detected", what |-> blocked_patterns[hits[i]].re]]
     \o
     [i \in 1..Cardinality(bad) |->
        [violation |-> "Import not allowed", what |-> SetToSeq(bad)[i]]]

\* SecurityManager.validate_script: the pattern violations in denylist order,
\* then the syntax error if the source does not parse, or else one violation
\* per imported root module that is not allowed
validate_script(script, manifest) ==
  LET hits == SelectSeq([i \in 1..Len(blocked_patterns) |-> i],
                        LAMBDA i : script_matches(blocked_patterns[i], script))
      bad  == {m \in _extract_imports(script) : ~_is_import_allowed(m, manifest)}
  IN [i \in 1..Len(hits) |->
        [violation |-> "Blocked pattern detected", what |-> blocked_patterns[hits[i]].re]]
     \o
     (IF ~parses(script)
      THEN <<[violation |-> "Syntax error in script", what |-> "invalid syntax"]>>
      ELSE [i \in 1..Cardinality(bad) |->
              [violation |-> "Import not allowed", what |-> SetToSeq(bad)[i]]])

(***************************************************************************)
(* Python values                                                           *)
(***************************************************************************)
None == [type |-> "None"]

Dict(d) == [type |-> "dict", d |-> d]

Str(s) == [type |-> "str", s |-> s]

List(l) == [type |-> "list", l |-> l]

Int(n) == [type |-> "int", n |-> n]

\* an exception that left run() uncaught
Raised(exc) == [type |-> "raised", exc |-> exc]

\* dict.get(key, default) on a Dict
get(v, key, default) == IF key \in DOMAIN v.d THEN v.d[key] ELSE default

\* The value of a key of a result dict (output, raw) is a dict, written as the
\* function from its keys to their values (<<>> for {}), or a value of another
\* type, written with its type: List(l), Int(n).
is_mapping(v) == "type" \notin DOMAIN v

\* bool(v)
truthy(v) ==
  IF is_mapping(v) THEN DOMAIN v # {}
  ELSE CASE v.type = "list" -> v.l # <<>>
         [] v.type = "int" -> v.n # 0
         [] OTHER -> FALSE

\* mutant of project: the output is passed on whole
project_all(output, select) == output

\* {key: result["output"].get(key) for key in select}
project(output, select) ==
  [key \in {select.l[i] : i \in 1..Len(select.l)} |->
     IF key \in DOMAIN output THEN output[key] ELSE None]

\* `if select and result.get("output")`
select_applies(select, result) ==
  /\ select.type = "list"
  /\ select.l # <<>>
  /\ truthy(get(result, "output", <<>>))

\* CapibaraResult.__init__
CapibaraResult(data) ==
  [type |-> "CapibaraResult",
   status |-> get(data, "status", "error"),
   artifacts |-> get(data, "artifacts", <<>>),
   output |-> get(data, "output", <<>>),
   raw |-> get(data, "raw", <<>>),
   data |-> data]

(***************************************************************************)
(* utils/runner.py: what the script prints, and how it is parsed           *)
(***************************************************************************)
\* The stdout of a script is the sequence of the lines it printed; the lines
\* the model uses, by their text:
line_ok == "{\"status\": \"ok\", \"artifacts\": [], \"output\": {\"result\": 8}, \"raw\": {}}"
line_error == "{\"status\": \"error\", \"message\": \"boom\"}"
line_nostatus == "{\"foo\": 1}"
line_number == "42"
line_text == "hello"
line_blank == ""
line_item == "{\"status\": \"ok\", \"output\": {\"title\": \"x\", \"price\": 10, \"currency\": \"ARS\"}}"
line_list == "{\"status\": \"ok\", \"output\": [1]}"

\* json.loads on a line: the value, or a JSONDecodeError
json_loads(line) ==
  CASE line = line_ok ->
         [ok |-> TRUE,
          value |-> Dict([status |-> "ok", artifacts |-> <<>>,
                          output |-> [result |-> 8], raw |-> <<>>])]
    [] line = line_error ->
         [ok |-> TRUE, value |-> Dict([status |-> "error", message |-> "boom"])]
    [] line = line_nostatus ->
         [ok |-> TRUE, value |-> Dict([foo |-> 1])]
    [] line = line_number ->
         [ok |-> TRUE, value |-> Int(42)]
    [] line = line_item ->
         [ok |-> TRUE,
          value |-> Dict([status |-> "ok",
                          output |-> [title |-> "x", price |-> 10, currency |-> "ARS"]])]
    [] line = line_list ->
         [ok |-> TRUE, value |-> Dict([status |-> "ok", output |-> List(<<1>>)])]
    [] OTHER -> [ok |-> FALSE, value |-> None]

\* mutant of last_line: lines[0], the first line of the output
first_line(stdout) == IF stdout = <<>> THEN line_blank ELSE stdout[1]

\* stdout.strip().split('\n')[-1]: the last line once the blank lines at both
\* ends are gone ("" when nothing is left)
RECURSIVE last_line(_)
last_line(stdout) ==
  IF stdout = <<>> THEN line_blank
  ELSE IF stdout[Len(stdout)] = line_blank
       THEN last_line(SubSeq(stdout, 1, Len(stdout) - 1))
       ELSE stdout[Len(stdout)]

\* the CompletedProcess subprocess.run returns for a process that ended
\* within the timeout: what it wrote to stdout and to stderr, as sequences of
\* lines, and its exit status
CompletedProcess(stdout, stderr, returncode) ==
  [stdout |-> stdout, stderr |-> stderr, returncode |-> returncode]

\* mutant of parse_output: no lenient fallback, output that is not JSON is
\* reported like no output
parse_output_strict(result) ==
  IF result.stdout # <<>> /\ json_loads(last_line(result.stdout)).ok
  THEN json_loads(last_line(result.stdout)).value
  ELSE Dict([status |-> "error", message |-> "No output from script",
             raw |-> [stdout |-> result.stdout, stderr |-> result.stderr]])

\* mutant of parse_output: a non-zero exit status is reported as an error (as
\* subprocess.run(check=True) with CalledProcessError turned into a result)
parse_output_checked(result) ==
  IF result.returncode # Int(0)
  THEN Dict([status |-> "error", message |-> "Script exited with an error",
             raw |-> [stdout |-> result.stdout, stderr |-> result.stderr]])
  ELSE IF result.stdout # <<>>
  THEN LET output == json_loads(last_line(result.stdout))
       IN IF output.ok
          THEN output.value
          ELSE Dict([status |-> "ok", artifacts |-> <<>>,
                     output |-> [raw_output |-> result.stdout],
                     raw |-> [stdout |-> result.stdout, stderr |-> result.stderr]])
  ELSE Dict([status |-> "error", message |-> "No output from script",
             raw |-> [stdout |-> result.stdout, stderr |-> result.stderr]])

\* _execute_script, lines 162-183, after subprocess.run returned `result`: the
\* parse of the output; result.returncode is not read
parse_output(result) ==
  IF result.stdout # <<>>
  THEN LET output == json_loads(last_line(result.stdout))
       IN IF output.ok
          THEN output.value
          ELSE Dict([status |-> "ok", artifacts |-> <<>>,
                     output |-> [raw_output |-> result.stdout],
                     raw |-> [stdout |-> result.stdout, stderr |-> result.stderr]])
  ELSE Dict([status |-> "error", message |-> "No output from script",
             raw |-> [stdout |-> result.stdout, stderr |-> result.stderr]])

\* An environment maps a variable name to its value, the value written as the
\* sequence of the parts it is joined from.
\* str(bool)
str_bool(b) == IF b THEN "True" ELSE "False"

\* ":".join(paths)
RECURSIVE join_colon(_)
join_colon(paths) ==
  IF paths = <<>> THEN <<>>
  ELSE IF Len(paths) = 1 THEN <<paths[1]>>
  ELSE <<paths[1], ":">> \o join_colon(Tail(paths))

\* manifest.get("allow", {}).get(key, default)
allow_get(manifest, key, default) ==
  IF "allow" \in DOMAIN manifest /\ key \in DOMAIN manifest.allow
  THEN manifest.allow[key] ELSE default

\* the temporary directory of a run_script call
work_dir_of(p) == "/tmp/work"

\* ScriptRunner._prepare_environment: a copy of the host environment with the
\* three variables set into it; _install_dependencies made work_dir/venv (and
\* its bin) exactly when the manifest has deps
_prepare_environment(environ, work_dir, manifest) ==
  LET fs_allowed == allow_get(manifest, "fs", <<>>)
      env1 == ("CAPIBARA_WORK_DIR" :> <<work_dir>>)
              @@ ("CAPIBARA_NETWORK_ALLOWED" :>
                    <<str_bool(allow_get(manifest, "network", FALSE))>>)
              @@ environ
      env2 == IF fs_allowed # <<>>
              THEN ("CAPIBARA_FS_ALLOWED" :> join_colon(fs_allowed)) @@ env1
              ELSE env1
  IN IF manifest.deps # <<>>
     THEN ("PATH" :> (<<work_dir, "/venv/bin", ":">> \o environ["PATH"])) @@ env2
     ELSE env2

\* run_script(script_path, context, manifest, timeout=300)
default_timeout == 300

\* the timeout of a run_script call: the argument, or the default without one
run_script_timeout(given) == IF given = None THEN Int(default_timeout) ELSE given

\* _execute_script, except subprocess.TimeoutExpired
timeout_result == Dict([status |-> "error", message |-> "Script execution timed out"])

\* _execute_script, except Exception (the process could not be started)
spawn_error_result == Dict([status |-> "error", message |-> "Execution error: OSError"])

\* mutant of rejects: the violation list is computed and then ignored
rejects_never(security_errors) == FALSE

\* run_script: `if security_errors:`
rejects(security_errors) == security_errors # <<>>

\* run_script: the return on a validation failure
security_failure(security_errors) ==
  [success |-> FALSE,
   result |-> Dict([status |-> "error", message |-> "Security validation failed",
                    errors |-> security_errors]),
   error |-> ""]

\* run_script: `except Exception as e`
run_script_exception(e) ==
  [success |-> FALSE,
   result |-> Dict([status |-> "error", message |-> <<"Execution failed: ", e>>]),
   error |-> e]

\* mutant of exit_with: the directory is made with mkdtemp and never removed
exit_with_leak(dirs, p) == dirs

\* tempfile.TemporaryDirectory: entering and leaving the with block
enter_with(dirs, p) == dirs \cup {p}

exit_with(dirs, p) == dirs \ {p}

(***************************************************************************)
(* The inputs of run()                                                     *)
(***************************************************************************)
Prompts == {"video", "vicreatedeo", "price", "Eval (x)"}

Contexts == { <<>>, <<[k |-> "a", v |-> "<set>"]>> }

\* what a script run can print
Stdouts ==
  { <<>>, <<line_blank>>, <<line_text>>, <<line_text, line_ok>>, <<line_error>>,
    <<line_number>>, <<line_nostatus>>, <<line_item>>, <<line_list>> }

\* the timeouts, in seconds, a caller may want to impose on run
Timeouts == { Int(1), Int(600) }

\* the select argument: absent, an empty list, a list of field names
Selects == { None, List(<<>>), List(<<"title", "stock">>) }

(***************************************************************************)
(* The cache directory                                                     *)
(***************************************************************************)
\* Path.exists() for a cache subdirectory and for a file in it
dir_exists(cache, fingerprint) == fingerprint \in DOMAIN cache

file_exists(cache, fingerprint, name) ==
  dir_exists(cache, fingerprint) /\ name \in DOMAIN cache[fingerprint]

\* Path.mkdir(parents=True, exist_ok=True)
mkdir(cache, fingerprint) ==
  IF dir_exists(cache, fingerprint) THEN cache ELSE (fingerprint :> <<>>) @@ cache

\* mutant of write_text: the file is written into every directory of the cache
write_text_everywhere(cache, fingerprint, name, content) ==
  [d \in DOMAIN cache |-> (name :> content) @@ cache[d]]

\* Path.write_text: create or replace one file of an existing directory
write_text(cache, fingerprint, name, content) ==
  [cache EXCEPT ![fingerprint] = (name :> content) @@ cache[fingerprint]]

\* the cache root when no directory is at its path
absent == [exists |-> FALSE]

root_exists(cache) == cache # absent

\* mutant of rmtree: the tree is left in place
rmtree_skipped(cache) == cache

\* shutil.rmtree(self.cache_dir)
rmtree(cache) == absent

\* self.cache_dir.mkdir(parents=True, exist_ok=True)
mkdir_root(cache) == IF root_exists(cache) THEN cache ELSE <<>>

\* The content of manifest.json, by what json.loads gives for it (m) when it
\* parses (valid): a text holding a JSON value, the text model_dump_json writes
\* for a manifest, and the empty file left by a write that failed after the
\* file was truncated
json_text(value) == [valid |-> TRUE, m |-> value]

\* the ISO 8601 text of a datetime, a JSON string
isoformat(d) == [type |-> "str", s |-> d.t]

\* ScriptManifest.model_dump_json: every field as its JSON value; strings,
\* booleans, lists and dicts of them are JSON values already, the datetime
\* created_at becomes its ISO text
model_dump_json(manifest) == [manifest EXCEPT !.created_at = isoformat(@)]

manifest_json(manifest) == json_text(model_dump_json(manifest))

truncated == [valid |-> FALSE, m |-> None]

(***************************************************************************)
(* State                                                                   *)
(***************************************************************************)
\* os.environ of the process that calls run(): no CAPIBARA_ variable in it
host_environ == ("PATH" :> <<"/usr/bin">>) @@ ("HOME" :> <<"/root">>)

NoCall ==
  [prompt |-> "", context |-> <<>>, refresh |-> FALSE, language |-> "python",
   select |-> None, hash_order |-> stopword_order, fingerprint |-> <<>>, path |-> "none", response |-> None, manifest |-> None,
   script_content |-> None, stdout |-> <<>>, result |-> None,
   environ |-> host_environ, env |-> None, timeout |-> None, wait_timeout |-> None,
   temp_script |-> None, executed |-> None, stderr |-> <<>>, returncode |-> None]

Init ==
  /\ cache_dir = <<>>
  /\ pc = [p \in Procs |-> "idle"]
  /\ call = [p \in Procs |-> NoCall]
  /\ log = [p \in Procs |-> <<>>]
  /\ temp_dirs = {}
  /\ child = [p \in Procs |-> "none"]
  /\ rs = [p \in Procs |-> None]
  /\ ret = [p \in Procs |-> None]
  /\ clock = 1
  /\ ncalls = 0

\* the error result both client paths build in `except Exception as e`
client_exception(path, e) ==
  CapibaraResult(Dict(
    [status |-> "error",
     message |-> <<IF path = "cached" THEN "Failed to run cached script: "
                   ELSE "Failed to generate and run script: ", e>>,
     artifacts |-> <<>>, output |-> <<>>, raw |-> [error |-> e]]))

\* the caller is done with its run(): it returned r (or raised)
Return(p, r) ==
  /\ ret' = [ret EXCEPT ![p] = r]
  /\ pc' = [pc EXCEPT ![p] = "done"]

Goto(p, label) == pc' = [pc EXCEPT ![p] = label]

Log(p, step) == log' = [log EXCEPT ![p] = Append(@, step)]

(***************************************************************************)
(* sdk/client.py: Capibara.run                                             *)
(***************************************************************************)
\* run(), lines 53-58: the call starts and computes the fingerprint; a context
\* json cannot serialize raises TypeError out of generate_fingerprint
run(p, prompt, context, select, refresh) ==
  /\ pc[p] \in {"idle", "done"}
  /\ ncalls < MaxCalls
  /\ ncalls' = ncalls + 1
  /\ log' = [log EXCEPT ![p] = <<>>]
  /\ child' = [child EXCEPT ![p] = "none"]
  /\ rs' = [rs EXCEPT ![p] = None]
  /\ IF json_serializable(context)
     THEN /\ call' = [call EXCEPT ![p] =
                        [NoCall EXCEPT !.prompt = prompt, !.context = context,
                                       !.select = select, !.refresh = refresh,
                                       !.environ = call[p].environ,
                                       !.fingerprint =
                                          generate_fingerprint(prompt, context, "python")]]
          /\ ret' = [ret EXCEPT ![p] = None]
          /\ Goto(p, "lookup")
     ELSE /\ call' = [call EXCEPT ![p] =
                        [NoCall EXCEPT !.prompt = prompt, !.context = context,
                                       !.select = select, !.refresh = refresh,
                                       !.environ = call[p].environ]]
          /\ Return(p, Raised("TypeError"))
  /\ UNCHANGED <<cache_dir, temp_dirs, clock>>

\* run(prompt, timeout=t): run has no parameter of that name, so the call
\* raises TypeError before the body of run is entered
run_with_timeout(p, timeout) ==
  /\ pc[p] \in {"idle", "done"}
  /\ ncalls < MaxCalls
  /\ ncalls' = ncalls + 1
  /\ log' = [log EXCEPT ![p] = <<>>]
  /\ child' = [child EXCEPT ![p] = "none"]
  /\ rs' = [rs EXCEPT ![p] = None]
  /\ call' = [call EXCEPT ![p] = [NoCall EXCEPT !.environ = call[p].environ,
                                                !.timeout = timeout]]
  /\ Return(p, Raised("TypeError"))
  /\ UNCHANGED <<cache_dir, temp_dirs, clock>>

\* mutant of cache_hit: the cache is never consulted
cache_hit_never(cache, fingerprint, refresh) == FALSE

\* run(), line 61: is the request in the cache
cache_hit(cache, fingerprint, refresh) ==
  /\ ~refresh
  /\ dir_exists(cache, fingerprint)
  /\ file_exists(cache, fingerprint, "manifest.json")

\* run(), lines 60-65: the branch on the cache lookup
lookup(p) ==
  /\ pc[p] = "lookup"
  /\ Log(p, "lookup")
  /\ IF cache_hit(cache_dir, call[p].fingerprint, call[p].refresh)
     THEN /\ call' = [call EXCEPT ![p].path = "cached"]
          /\ Goto(p, "load_manifest")
     ELSE /\ call' = [call EXCEPT ![p].path = "generate"]
          /\ Goto(p, "generate")
  /\ UNCHANGED <<cache_dir, temp_dirs, child, rs, ret, clock, ncalls>>

\* _run_cached_script, lines 74-83: load the manifest; a missing file or a text
\* json.loads cannot parse raises, and the except clause returns an error
load_manifest(p) ==
  /\ pc[p] = "load_manifest"
  /\ LET fp == call[p].fingerprint IN
     IF ~file_exists(cache_dir, fp, "manifest.json")
     THEN /\ Return(p, client_exception("cached", "Manifest not found"))
          /\ UNCHANGED call
     ELSE IF ~cache_dir[fp]["manifest.json"].valid
     THEN /\ Return(p, client_exception("cached", "JSONDecodeError"))
          /\ UNCHANGED call
     ELSE /\ call' = [call EXCEPT ![p].manifest = cache_dir[fp]["manifest.json"].m]
          /\ Goto(p, "run_script")
          /\ UNCHANGED ret
  /\ UNCHANGED <<cache_dir, log, temp_dirs, child, rs, clock, ncalls>>

\* mutant of generation_failed: the status of the response is not looked at
generation_failed_never(response) == FALSE

\* _generate_and_run_script, line 131: `if response.status != "ok"`
generation_failed(response) == response.status # "ok"

\* _generate_and_run_script, lines 121-138: ask the generator
generate(p, llm_ok) ==
  /\ pc[p] = "generate"
  /\ Log(p, "generate")
  /\ clock' = clock + 1
  /\ LET response == generate_script(call[p].prompt, call[p].context,
                                     call[p].language, clock, llm_ok)
     IN /\ call' = [call EXCEPT ![p].response = response]
        /\ IF generation_failed(response)
           THEN Return(p, CapibaraResult(Dict(
                  [status |-> "error", message |-> response.error,
                   artifacts |-> <<>>, output |-> <<>>,
                   raw |-> [error |-> response.error]])))
           ELSE Goto(p, "mkdir") /\ UNCHANGED ret
  /\ UNCHANGED <<cache_dir, temp_dirs, child, rs, ncalls>>

\* _generate_and_run_script, line 145
make_script_dir(p) ==
  /\ pc[p] = "mkdir"
  /\ cache_dir' = mkdir(cache_dir, call[p].fingerprint)
  /\ Goto(p, "save_script")
  /\ UNCHANGED <<call, log, temp_dirs, child, rs, ret, clock, ncalls>>

\* a write into the cache that finds its directory gone raises FileNotFoundError,
\* which the except clause of _generate_and_run_script turns into an error result
save_step(p, name, content, next) ==
  IF dir_exists(cache_dir, call[p].fingerprint)
  THEN /\ cache_dir' = write_text(cache_dir, call[p].fingerprint, name, content)
       /\ Goto(p, next)
       /\ UNCHANGED ret
  ELSE /\ Return(p, client_exception("generate", "FileNotFoundError"))
       /\ UNCHANGED cache_dir

\* _save_artifacts, lines 181-183
save_script(p) ==
  /\ pc[p] = "save_script"
  /\ save_step(p, call[p].response.manifest.entry, call[p].response.script, "save_manifest")
  /\ UNCHANGED <<call, log, temp_dirs, child, rs, clock, ncalls>>

\* _save_artifacts, lines 185-187; write_text truncates the file and then
\* writes, so a write that fails (io_ok false: disk full, I/O error) leaves an
\* empty manifest.json behind and raises OSError
save_manifest(p, io_ok) ==
  /\ pc[p] = "save_manifest"
  /\ IF io_ok \/ ~dir_exists(cache_dir, call[p].fingerprint)
     THEN save_step(p, "manifest.json", manifest_json(call[p].response.manifest),
                    "save_requirements")
     ELSE /\ cache_dir' = write_text(cache_dir, call[p].fingerprint,
                                     "manifest.json", truncated)
          /\ Return(p, client_exception("generate", "OSError"))
  /\ UNCHANGED <<call, log, temp_dirs, child, rs, clock, ncalls>>

\* _save_artifacts, lines 189-192
save_requirements(p) ==
  /\ pc[p] = "save_requirements"
  /\ IF call[p].response.requirements # ""
     THEN save_step(p, "requirements.txt", call[p].response.requirements, "save_readme")
     ELSE Goto(p, "save_readme") /\ UNCHANGED <<cache_dir, ret>>
  /\ UNCHANGED <<call, log, temp_dirs, child, rs, clock, ncalls>>

\* _save_artifacts, lines 194-197, and the call of run_script at lines 150-152
\* with response.manifest.model_dump()
save_readme(p) ==
  /\ pc[p] = "save_readme"
  /\ IF call[p].response.readme # <<>>
     THEN save_step(p, "README.md", call[p].response.readme, "run_script")
     ELSE Goto(p, "run_script") /\ UNCHANGED <<cache_dir, ret>>
  /\ log' = [log EXCEPT ![p] = IF pc'[p] = "run_script" THEN Append(@, "persist") ELSE @]
  /\ call' = [call EXCEPT ![p].manifest = call[p].response.manifest]
  /\ UNCHANGED <<temp_dirs, child, rs, clock, ncalls>>

(***************************************************************************)
(* utils/runner.py: ScriptRunner.run_script                                *)
(***************************************************************************)
\* run_script, lines 28-42: read the script and validate it
validate(p) ==
  /\ pc[p] = "run_script"
  /\ Goto(p, IF file_exists(cache_dir, call[p].fingerprint, call[p].manifest.entry)
                /\ ~rejects(validate_script(
                       cache_dir[call[p].fingerprint][call[p].manifest.entry],
                       call[p].manifest))
             THEN "mktemp" ELSE "post_run")
  /\ IF ~file_exists(cache_dir, call[p].fingerprint, call[p].manifest.entry)
     THEN /\ rs' = [rs EXCEPT ![p] = run_script_exception("FileNotFoundError")]
          /\ UNCHANGED <<call, log>>
     ELSE LET script_content == cache_dir[call[p].fingerprint][call[p].manifest.entry]
              security_errors == validate_script(script_content, call[p].manifest)
          IN /\ call' = [call EXCEPT ![p].script_content = script_content]
             /\ Log(p, "validate")
             /\ rs' = [rs EXCEPT ![p] = IF rejects(security_errors)
                                        THEN security_failure(security_errors)
                                        ELSE None]
  /\ UNCHANGED <<cache_dir, temp_dirs, child, ret, clock, ncalls>>

\* mutant of copied_text: the cached file is copied (shutil.copy(script_path,
\* temp_script)), read again at the time of the copy
copied_text_reread(cache, c) ==
  IF file_exists(cache, c.fingerprint, c.manifest.entry)
  THEN cache[c.fingerprint][c.manifest.entry]
  ELSE c.script_content

\* run_script, line 51: temp_script.write_text(script_content), the text that
\* was read at line 34 and validated
copied_text(cache, c) == c.script_content

\* run_script, lines 44-51: the temporary directory and the copy of the script
\* into it (temp_script, the file of the copy); a copy that fails (copied
\* false) raises OSError out of the with block
make_temp(p, copied) ==
  /\ pc[p] = "mktemp"
  /\ Log(p, "mktemp")
  /\ IF copied
     THEN /\ temp_dirs' = enter_with(temp_dirs, p)
          /\ call' = [call EXCEPT ![p].temp_script = copied_text(cache_dir, call[p])]
          /\ Goto(p, IF call[p].manifest.deps # <<>> THEN "install" ELSE "spawn")
          /\ UNCHANGED rs
     ELSE /\ temp_dirs' = exit_with(enter_with(temp_dirs, p), p)
          /\ rs' = [rs EXCEPT ![p] = run_script_exception("OSError")]
          /\ Goto(p, "post_run")
          /\ UNCHANGED call
  /\ UNCHANGED <<cache_dir, child, ret, clock, ncalls>>

\* what the pip process of _install_dependencies did, as the log records it
pip_outcome(outcome) ==
  CASE outcome = "ok" -> "pip_ok"
    [] outcome = "failed" -> "pip_failed"
    [] outcome = "timeout" -> "pip_timeout"

\* mutant of install_raises: subprocess.run without check=True and with the
\* TimeoutExpired swallowed
install_raises_never(outcome) == FALSE

\* _install_dependencies, lines 93-104: does the pip outcome raise RuntimeError
install_raises(outcome) == outcome \in {"failed", "timeout"}

\* run_script, lines 53-56, and _install_dependencies, lines 82-84:
\* venv.create(venv_path, with_pip=True) starts `python -m ensurepip` in the
\* new environment and waits for it with no timeout; this step is that
\* process ending and venv.create returning, or raising CalledProcessError
\* (created false) out of the with block
venv_create(p, created) ==
  /\ pc[p] = "install"
  /\ Log(p, "install")
  /\ IF created
     THEN /\ Goto(p, "pip")
          /\ UNCHANGED <<temp_dirs, rs>>
     ELSE /\ temp_dirs' = exit_with(temp_dirs, p)
          /\ rs' = [rs EXCEPT ![p] = run_script_exception("CalledProcessError")]
          /\ Goto(p, "post_run")
  /\ UNCHANGED <<cache_dir, call, child, ret, clock, ncalls>>

\* _install_dependencies, lines 86-104: pip ends ok, with a non-zero status,
\* or is cut off after 60 s; the two failures raise RuntimeError out of the
\* with block
install_dependencies(p, outcome) ==
  /\ pc[p] = "pip"
  /\ Log(p, pip_outcome(outcome))
  /\ IF ~install_raises(outcome)
     THEN /\ Goto(p, "spawn")
          /\ UNCHANGED <<temp_dirs, rs>>
     ELSE /\ temp_dirs' = exit_with(temp_dirs, p)
          /\ rs' = [rs EXCEPT ![p] = run_script_exception(
                       IF outcome = "failed" THEN "Failed to install dependencies"
                       ELSE "Dependency installation timed out")]
          /\ Goto(p, "post_run")
  /\ UNCHANGED <<cache_dir, call, child, ret, clock, ncalls>>

\* run_script, lines 58-59, and _execute_script, lines 143-160: the environment
\* is prepared and subprocess.run starts `python3 temp_script` (executed: the
\* text of that file as the interpreter reads it) with it and with the
\* timeout of run_script, for which neither client path passes a value
\* (client.py:84, 152); a process that cannot be started raises OSError, caught
\* at line 190
spawn(p, started) ==
  /\ pc[p] = "spawn"
  /\ LET env == _prepare_environment(call[p].environ, work_dir_of(p), call[p].manifest)
     IN IF started
        THEN /\ child' = [child EXCEPT ![p] = "running"]
             /\ Log(p, "execute")
             /\ Goto(p, "wait")
             /\ call' = [call EXCEPT ![p].env = env,
                                     ![p].wait_timeout = run_script_timeout(None),
                                     ![p].executed = call[p].temp_script]
        ELSE /\ call' = [call EXCEPT ![p].env = env,
                                     ![p].wait_timeout = run_script_timeout(None),
                                     ![p].result = spawn_error_result]
             /\ Goto(p, "return")
             /\ UNCHANGED <<child, log>>
  /\ UNCHANGED <<cache_dir, temp_dirs, rs, ret, clock, ncalls>>

\* the script process ends with the exit status returncode, having written
\* stdout and stderr; it stays a zombie until the parent waits for it
child_exit(p, stdout, stderr, returncode) ==
  /\ pc[p] = "wait"
  /\ child[p] = "running"
  /\ child' = [child EXCEPT ![p] = "exited"]
  /\ call' = [call EXCEPT ![p].stdout = stdout, ![p].stderr = stderr,
                          ![p].returncode = returncode]
  /\ UNCHANGED <<cache_dir, pc, log, temp_dirs, rs, ret, clock, ncalls>>

\* _execute_script, lines 153-183: subprocess.run collects the output of the
\* ended process, reaps it and returns; the output is parsed
communicate(p) ==
  /\ pc[p] = "wait"
  /\ child[p] = "exited"
  /\ child' = [child EXCEPT ![p] = "reaped"]
  /\ call' = [call EXCEPT ![p].result =
                  parse_output(CompletedProcess(call[p].stdout, call[p].stderr,
                                                call[p].returncode))]
  /\ Goto(p, "return")
  /\ UNCHANGED <<cache_dir, log, temp_dirs, rs, ret, clock, ncalls>>

\* mutant of kill_and_wait: the wait is given up and the process left alone
wait_abandoned(state) == state

\* subprocess.run on expiry of its timeout: process.kill(), process.wait()
kill_and_wait(state) == "reaped"

\* _execute_script, lines 153-160 and 185-189: the timeout expires first
timeout_expired(p) ==
  /\ pc[p] = "wait"
  /\ child[p] = "running"
  /\ child' = [child EXCEPT ![p] = kill_and_wait(@)]
  /\ Log(p, "timeout")
  /\ call' = [call EXCEPT ![p].result = timeout_result]
  /\ Goto(p, "return")
  /\ UNCHANGED <<cache_dir, temp_dirs, rs, ret, clock, ncalls>>

\* run_script, line 69: return out of the with block
return_result(p) ==
  /\ pc[p] = "return"
  /\ temp_dirs' = exit_with(temp_dirs, p)
  /\ rs' = [rs EXCEPT ![p] = [success |-> TRUE, result |-> call[p].result, error |-> ""]]
  /\ Goto(p, "post_run")
  /\ UNCHANGED <<cache_dir, call, log, child, ret, clock, ncalls>>

(***************************************************************************)
(* sdk/client.py: after run_script                                         *)
(***************************************************************************)
\* _run_cached_script, lines 86-109, and _generate_and_run_script, lines
\* 154-177: the error result of a failed run_script, the field selection, and
\* the result object; .get on a result or an output that is not a dict raises
\* AttributeError, which the except clause turns into an error result
post_run(p) ==
  /\ pc[p] = "post_run"
  /\ Return(p,
       IF ~rs[p].success
       THEN CapibaraResult(Dict(
              [status |-> "error",
               message |-> get(rs[p].result, "message", "Script execution failed"),
               artifacts |-> <<>>, output |-> <<>>,
               raw |-> [error |-> rs[p].error]]))
       ELSE IF rs[p].result.type # "dict"
       THEN client_exception(call[p].path, "AttributeError")
       ELSE IF select_applies(call[p].select, rs[p].result)
       THEN IF is_mapping(rs[p].result.d.output)
            THEN CapibaraResult(Dict(
                   [rs[p].result.d EXCEPT
                      !["output"] = project(rs[p].result.d.output, call[p].select)]))
            ELSE client_exception(call[p].path, "AttributeError")
       ELSE CapibaraResult(rs[p].result))
  /\ UNCHANGED <<cache_dir, call, log, temp_dirs, child, rs, clock, ncalls>>

\* What json.loads gives for a manifest.json is a JSON object, written as the
\* record of its keys, or a JSON value of another type, written with its type.
\* list_scripts, lines 207-217: the manifest of a directory is read when the
\* file exists and parses
manifest_read(cache, fingerprint) ==
  /\ file_exists(cache, fingerprint, "manifest.json")
  /\ cache[fingerprint]["manifest.json"].valid

\* manifest["fingerprint"] and the three other subscripts raise KeyError on an
\* object that lacks the key, and the handler skips the directory
has_keys(manifest) ==
  {"fingerprint", "prompt_sha", "language", "created_at"} \subseteq DOMAIN manifest

\* list_scripts, lines 199-219: one summary per directory whose manifest.json
\* exists, parses and has the keys read here, in the order of iterdir(); the
\* subscript on a manifest that is JSON but not an object (a list, a number,
\* null) raises TypeError, which `except (json.JSONDecodeError, KeyError)` does
\* not catch
list_scripts(cache) ==
  LET read == {fingerprint \in DOMAIN cache : manifest_read(cache, fingerprint)}
      dirs == SetToSeq({fingerprint \in read :
                          /\ is_mapping(cache[fingerprint]["manifest.json"].m)
                          /\ has_keys(cache[fingerprint]["manifest.json"].m)})
  IN IF \E fingerprint \in read : ~is_mapping(cache[fingerprint]["manifest.json"].m)
     THEN Raised("TypeError")
     ELSE List([i \in 1..Len(dirs) |->
                  LET manifest == cache[dirs[i]]["manifest.json"].m
                  IN [fingerprint |-> manifest.fingerprint,
                      prompt_sha |-> manifest.prompt_sha,
                      language |-> manifest.language,
                      created_at |-> manifest.created_at,
                      deps |-> IF "deps" \in DOMAIN manifest THEN manifest.deps
                               ELSE <<>>]])

\* clear_cache, lines 221-226, called when the caller has no run() in progress;
\* it returns None
clear_cache(p) ==
  /\ pc[p] \in {"idle", "done"}
  /\ cache_dir' = mkdir_root(IF root_exists(cache_dir) THEN rmtree(cache_dir)
                             ELSE cache_dir)
  /\ pc' = [pc EXCEPT ![p] = "idle"]
  /\ log' = [log EXCEPT ![p] = <<"clear_cache">>]
  /\ ret' = [ret EXCEPT ![p] = None]
  /\ UNCHANGED <<call, temp_dirs, child, rs, clock, ncalls>>

(***************************************************************************)
(* Specification: run() calls made one after the other by one caller       *)
(***************************************************************************)
Callers == {1}

Next ==
  \E p \in Callers :
    \/ \E prompt \in Prompts, context \in Contexts, select \in Selects,
          refresh \in BOOLEAN :
          run(p, prompt, context, select, refresh)
    \/ \E timeout \in Timeouts : run_with_timeout(p, timeout)
    \/ lookup(p)
    \/ load_manifest(p)
    \/ \E llm_ok \in BOOLEAN : generate(p, llm_ok)
    \/ make_script_dir(p)
    \/ save_script(p)
    \/ \E io_ok \in BOOLEAN : save_manifest(p, io_ok)
    \/ save_requirements(p)
    \/ save_readme(p)
    \/ validate(p)
    \/ \E copied \in BOOLEAN : make_temp(p, copied)
    \/ \E created \in BOOLEAN : venv_create(p, created)
    \/ \E outcome \in {"ok", "failed", "timeout"} : install_dependencies(p, outcome)
    \/ \E started \in BOOLEAN : spawn(p, started)
    \/ \E stdout \in Stdouts : child_exit(p, stdout, <<>>, Int(0))
    \/ communicate(p)
    \/ timeout_expired(p)
    \/ return_result(p)
    \/ post_run(p)
    \/ clear_cache(p)

Spec == Init /\ [][Next]_vars

(***************************************************************************)
(* Properties                                                              *)
(***************************************************************************)
InLog(p, step) == \E i \in 1..Len(log[p]) : log[p][i] = step

\* run_script has returned to the client in the call in progress
RunScriptReturned(p) == pc[p] = "post_run" \/ (pc[p] = "done" /\ rs[p] # None)

\* the violations of the script run_script read in the call in progress
Violations(p) == validate_script(call[p].script_content, call[p].manifest)

\* C1: a script that the validator finds violations in is never run: run_script
\* has returned (False, {status "error", message "Security validation failed",
\* errors: the violations}, "") and the call has made no temporary directory,
\* installed nothing and started no process, on the cached and on the
\* generation path alike.
C1_RejectedScriptNeverRuns ==
  \A p \in Procs :
    (InLog(p, "validate") /\ Violations(p) # <<>>) =>
      /\ RunScriptReturned(p)
      /\ rs[p].success = FALSE
      /\ rs[p].error = ""
      /\ rs[p].result.type = "dict"
      /\ rs[p].result.d = [status |-> "error",
                           message |-> "Security validation failed",
                           errors |-> Violations(p)]
      /\ ~InLog(p, "mktemp") /\ ~InLog(p, "install") /\ ~InLog(p, "execute")
      /\ p \notin temp_dirs
      /\ child[p] = "none"

\* a run on the cached path has returned after its script failed validation
C1_Witness ==
  \E p \in Procs :
    /\ pc[p] = "done"
    /\ call[p].path = "cached"
    /\ InLog(p, "validate")
    /\ Violations(p) # <<>>
    /\ ret[p].type = "CapibaraResult"

\* the entry of a fingerprint holds a script that fails validation against
\* the manifest stored with it
ViolatingEntry(cache, fingerprint) ==
  /\ file_exists(cache, fingerprint, "manifest.json")
  /\ cache[fingerprint]["manifest.json"].valid
  /\ file_exists(cache, fingerprint, cache[fingerprint]["manifest.json"].m.entry)
  /\ validate_script(cache[fingerprint][cache[fingerprint]["manifest.json"].m.entry],
                     cache[fingerprint]["manifest.json"].m) # <<>>

\* C2: once every run call has returned, the cache holds no entry whose script
\* has a non-empty violation list.
C2_NoViolatingEntryCached ==
  (\A p \in Procs : pc[p] \in {"idle", "done"}) =>
     \A fingerprint \in DOMAIN cache_dir : ~ViolatingEntry(cache_dir, fingerprint)

\* the steps of the claimed order that a log holds, in the order they were taken
MainSteps(l) ==
  SelectSeq(l, LAMBDA s : s \in {"lookup", "generate", "validate", "persist", "execute"})

IsPrefix(s, t) == Len(s) <= Len(t) /\ SubSeq(t, 1, Len(s)) = s

\* C3: in a run that misses the cache the steps are taken in the order lookup,
\* generation, validation, persistence, execution.
C3_StepsInClaimedOrder ==
  \A p \in Procs :
    call[p].path = "generate" =>
      IsPrefix(MainSteps(log[p]),
               <<"lookup", "generate", "validate", "persist", "execute">>)

\* the cache holds an entry for the fingerprint: a manifest that parses and
\* the script it names
ValidEntry(cache, fingerprint) ==
  /\ file_exists(cache, fingerprint, "manifest.json")
  /\ cache[fingerprint]["manifest.json"].valid
  /\ file_exists(cache, fingerprint, cache[fingerprint]["manifest.json"].m.entry)

\* C4: a run with refresh=false that finds an entry for its fingerprint takes
\* the cached path, never invokes the Generator, and hands the stored script
\* and the stored manifest to run_script.
C4_CacheHitBypassesGenerator ==
  /\ [][\A p \in Procs :
          (/\ pc[p] = "lookup" /\ pc'[p] # "lookup"
           /\ ~call[p].refresh
           /\ ValidEntry(cache_dir, call[p].fingerprint))
          => (pc'[p] = "load_manifest" /\ call'[p].path = "cached")]_vars
  /\ [](\A p \in Procs :
          call[p].path = "cached" =>
            /\ ~InLog(p, "generate")
            /\ pc[p] \notin {"generate", "mkdir", "save_script", "save_manifest",
                             "save_requirements", "save_readme"}
            /\ (RunScriptReturned(p) /\ ValidEntry(cache_dir, call[p].fingerprint)) =>
                  /\ InLog(p, "validate")
                  /\ call[p].manifest = cache_dir[call[p].fingerprint]["manifest.json"].m
                  /\ call[p].script_content =
                        cache_dir[call[p].fingerprint][call[p].manifest.entry])

\* a run on the cached path executed the stored script to the end
C4_Witness ==
  \E p \in Procs :
    /\ pc[p] = "done"
    /\ call[p].path = "cached"
    /\ ValidEntry(cache_dir, call[p].fingerprint)
    /\ InLog(p, "execute")
    /\ ret[p].type = "CapibaraResult"
    /\ ret[p].status = "ok"

\* the files of the artifact a generator response describes, as _save_artifacts
\* is meant to leave them
artifact_files(response) ==
  (response.manifest.entry :> response.script)
  @@ ("manifest.json" :> manifest_json(response.manifest))
  @@ (IF response.requirements # "" THEN ("requirements.txt" :> response.requirements)
      ELSE <<>>)
  @@ (IF response.readme # <<>> THEN ("README.md" :> response.readme) ELSE <<>>)

\* C5: a run with refresh=true invokes the Generator whether or not the
\* fingerprint has an entry, and once the generated artifact has been stored
\* the entry is that artifact.
C5_RefreshStoresNewArtifact ==
  \A p \in Procs :
    (call[p].refresh /\ pc[p] = "post_run") =>
      /\ InLog(p, "generate")
      /\ InLog(p, "persist") =>
           /\ dir_exists(cache_dir, call[p].fingerprint)
           /\ cache_dir[call[p].fingerprint] = artifact_files(call[p].response)

\* C6: a run with refresh=false that has returned a result either ran from a
\* manifest it could parse or invoked the Generator: an entry whose manifest
\* does not parse is regenerated, not reported as an error.
C6_CorruptManifestIsMiss ==
  \A p \in Procs :
    (pc[p] = "done" /\ ~call[p].refresh /\ ret[p].type = "CapibaraResult") =>
       \/ call[p].manifest # None
       \/ InLog(p, "generate")

\* RunResult: a mapping with status "ok" or "error", and a message with "error"
well_formed(v) ==
  /\ v.type = "dict"
  /\ "status" \in DOMAIN v.d
  /\ v.d.status \in {"ok", "error"}
  /\ v.d.status = "error" => "message" \in DOMAIN v.d

\* C7: whatever the script printed, the result run_script returns is a
\* well-formed RunResult.
C7_ResultWellFormed ==
  \A p \in Procs : RunScriptReturned(p) => well_formed(rs[p].result)

\* C8: run returns a RunResult for every prompt and context, and for a context
\* that cannot be serialized the result is an error produced before any side
\* effect.
C8_NoFaultEscapes ==
  \A p \in Procs :
    pc[p] = "done" =>
      /\ ret[p].type = "CapibaraResult"
      /\ ~json_serializable(call[p].context) =>
            (ret[p].status = "error" /\ log[p] = <<>>)

\* C9: when the timeout expires the script process is killed and reaped and
\* the result is status "error", message "Script execution timed out"; no
\* running or unreaped child is left when run_script has returned.
C9_TimeoutKillsAndReaps ==
  \A p \in Procs :
    /\ InLog(p, "timeout") =>
         /\ child[p] = "reaped"
         /\ call[p].result = Dict([status |-> "error",
                                   message |-> "Script execution timed out"])
         /\ RunScriptReturned(p) =>
              /\ rs[p].success
              /\ rs[p].result = call[p].result
         /\ pc[p] = "done" => (ret[p].type = "CapibaraResult" /\ ret[p].status = "error")
    /\ pc[p] \in {"idle", "post_run", "done"} => child[p] \notin {"running", "exited"}

\* a run whose script was cut off by the timeout has returned
C9_Witness ==
  \E p \in Procs : pc[p] = "done" /\ InLog(p, "timeout") /\ child[p] = "reaped"

\* C10: the temporary directory of a run_script call exists only between its
\* creation and the return of run_script: it is gone when run_script has
\* returned, however the call ended.
C10_TempDirDestroyed ==
  \A p \in Procs :
    /\ pc[p] \in {"idle", "post_run", "done"} => p \notin temp_dirs
    /\ p \in temp_dirs => (InLog(p, "mktemp") /\ pc[p] \in {"install", "pip", "spawn", "wait", "return"})

\* run_script has returned after the dependency installation failed in the
\* temporary directory it had created
C10_Witness ==
  \E p \in Procs :
    /\ pc[p] = "post_run"
    /\ InLog(p, "mktemp")
    /\ InLog(p, "install")
    /\ ~rs[p].success
    /\ p \notin temp_dirs

\* C11: when the dependencies of the manifest were being installed and pip
\* ended with a non-zero status or ran into the install timeout, run_script has
\* returned (False, {status "error", message "Execution failed: <the install
\* failure>"}, <the install failure>) and the script process was never started.
C11_InstallFailureAborts ==
  \A p \in Procs :
    (InLog(p, "pip_failed") \/ InLog(p, "pip_timeout")) =>
      /\ call[p].manifest.deps # <<>>
      /\ RunScriptReturned(p)
      /\ rs[p].success = FALSE
      /\ rs[p].error = (IF InLog(p, "pip_failed") THEN "Failed to install dependencies"
                        ELSE "Dependency installation timed out")
      /\ rs[p].result = Dict([status |-> "error",
                              message |-> <<"Execution failed: ", rs[p].error>>])
      /\ ~InLog(p, "execute")
      /\ child[p] = "none"

\* a run returned an error after pip ran into the install timeout
C11_Witness ==
  \E p \in Procs :
    /\ pc[p] = "done"
    /\ InLog(p, "pip_timeout")
    /\ ret[p].type = "CapibaraResult"
    /\ ret[p].status = "error"

\* C12: when the Generator reports failure, run returns an error RunResult
\* carrying the Generator's message, and no step of the call, from its start to
\* its return, changes the cache: the call took the lookup and generation
\* steps only, and none of them creates, changes or removes a directory or file.
C12_GeneratorFailureLeavesCache ==
  /\ [][\A p \in Procs :
          (/\ pc[p] = "generate" /\ pc'[p] # "generate"
           /\ call'[p].response.status # "ok") =>
             /\ pc'[p] = "done"
             /\ cache_dir' = cache_dir
             /\ ret'[p].type = "CapibaraResult"
             /\ ret'[p].status = "error"
             /\ ret'[p].data.d.message = call'[p].response.error
             /\ ret'[p].output = <<>>]_vars
  /\ [][\A p \in Procs :
          (\/ pc[p] \in {"idle", "done"} /\ pc'[p] # pc[p] /\ ncalls' # ncalls
           \/ pc[p] = "lookup" /\ pc'[p] # "lookup") =>
             cache_dir' = cache_dir]_vars
  /\ [](\A p \in Procs :
          (/\ pc[p] = "done"
           /\ call[p].response # None
           /\ call[p].response.status # "ok") => log[p] = <<"lookup", "generate">>)

\* a run whose generation failed has returned, with entries in the cache
C12_Witness ==
  \E p \in Procs :
    /\ pc[p] = "done"
    /\ call[p].response # None
    /\ call[p].response.status = "error"
    /\ ret[p].type = "CapibaraResult"
    /\ ret[p].status = "error"
    /\ ValidEntry(cache_dir, call[p].fingerprint)

(***************************************************************************)
(* Specification: one run() call by each of two callers that share the     *)
(* cache directory (two threads, or two processes in one work_dir), their  *)
(* steps interleaved                                                       *)
(***************************************************************************)
ConcurrentPrompts == {"video", "vicreatedeo"}

ConcurrentStdouts == { <<>>, <<line_text, line_ok>> }

NextConcurrent ==
  \E p \in Procs :
    \/ \E prompt \in ConcurrentPrompts, refresh \in BOOLEAN :
          pc[p] = "idle" /\ run(p, prompt, <<>>, None, refresh)
    \/ lookup(p)
    \/ load_manifest(p)
    \/ \E llm_ok \in BOOLEAN : generate(p, llm_ok)
    \/ make_script_dir(p)
    \/ save_script(p)
    \/ \E io_ok \in BOOLEAN : save_manifest(p, io_ok)
    \/ save_requirements(p)
    \/ save_readme(p)
    \/ validate(p)
    \/ \E copied \in BOOLEAN : make_temp(p, copied)
    \/ \E created \in BOOLEAN : venv_create(p, created)
    \/ \E outcome \in {"ok", "failed", "timeout"} : install_dependencies(p, outcome)
    \/ \E started \in BOOLEAN : spawn(p, started)
    \/ \E stdout \in ConcurrentStdouts : child_exit(p, stdout, <<>>, Int(0))
    \/ communicate(p)
    \/ timeout_expired(p)
    \/ return_result(p)
    \/ post_run(p)
    \/ clear_cache(p)

SpecConcurrent == Init /\ [][NextConcurrent]_vars

\* C13: when two run calls for the same fingerprint both missed the cache, both
\* generated and both stored their artifact, then once both have returned the
\* entry is the whole artifact of one of the two calls (the one that wrote
\* last): script, manifest, requirements and readme all of the same call.
C13_LastWriterWins ==
  \A p, q \in Procs :
    (/\ p # q
     /\ pc[p] = "done" /\ pc[q] = "done"
     /\ ~call[p].refresh /\ ~call[q].refresh
     /\ call[p].path = "generate" /\ call[q].path = "generate"
     /\ call[p].fingerprint = call[q].fingerprint
     /\ InLog(p, "persist") /\ InLog(q, "persist")
     /\ dir_exists(cache_dir, call[p].fingerprint)) =>
       \/ cache_dir[call[p].fingerprint] = artifact_files(call[p].response)
       \/ cache_dir[call[q].fingerprint] = artifact_files(call[q].response)

(***************************************************************************)
(* Specification: the functions of utils/fingerprint.py, called by two     *)
(* interpreters (each with the stopword order its hash seed gave it) on    *)
(* prompts and contexts from bounded sets                                  *)
(***************************************************************************)
FingerprintPrompts ==
  {"add", "Please  add", "i wmakeant", "crecreateate", "video", "vicreatedeo",
   "add|{}|x"}

\* {"a": 1, "b": 2} and {"a": {"b": 1, "c": 2}}, each in both key orders, the
\* empty dict, and a dict holding a set
FingerprintContexts ==
  { <<>>,
    <<[k |-> "a", v |-> "1"], [k |-> "b", v |-> "2"]>>,
    <<[k |-> "b", v |-> "2"], [k |-> "a", v |-> "1"]>>,
    <<[k |-> "a", v |-> "<dict>",
       items |-> <<[k |-> "b", v |-> "1"], [k |-> "c", v |-> "2"]>>]>>,
    <<[k |-> "a", v |-> "<dict>",
       items |-> <<[k |-> "c", v |-> "2"], [k |-> "b", v |-> "1"]>>]>>,
    <<[k |-> "a", v |-> "<set>"]>> }

InitFingerprint ==
  /\ cache_dir = <<>>
  /\ pc = [p \in Procs |-> "idle"]
  /\ call \in [Procs -> {[NoCall EXCEPT !.hash_order = order] : order \in stopword_orders}]
  /\ log = [p \in Procs |-> <<>>]
  /\ temp_dirs = {}
  /\ child = [p \in Procs |-> "none"]
  /\ rs = [p \in Procs |-> None]
  /\ ret = [p \in Procs |-> None]
  /\ clock = 1
  /\ ncalls = 0

\* a call of generate_fingerprint(prompt, context, language) by interpreter p
call_generate_fingerprint(p, prompt, context, language) ==
  /\ pc[p] = "idle"
  /\ log' = [log EXCEPT ![p] = <<"generate_fingerprint">>]
  /\ call' = [call EXCEPT ![p].prompt = prompt, ![p].context = context,
                          ![p].language = language,
                          ![p].fingerprint =
                             IF json_serializable(context)
                             THEN generate_fingerprint_in(prompt, context, language,
                                                          call[p].hash_order)
                             ELSE <<>>]
  /\ Return(p, IF json_serializable(context)
               THEN Str(call'[p].fingerprint)
               ELSE Raised("TypeError"))
  /\ UNCHANGED <<cache_dir, temp_dirs, child, rs, clock, ncalls>>

\* a call of normalize_prompt(prompt) by interpreter p
call_normalize_prompt(p, prompt) ==
  /\ pc[p] = "idle"
  /\ log' = [log EXCEPT ![p] = <<"normalize_prompt">>]
  /\ call' = [call EXCEPT ![p].prompt = prompt, ![p].context = <<>>,
                          ![p].fingerprint = <<>>]
  /\ Return(p, Str(normalize_prompt_in(Chars[prompt], call[p].hash_order)))
  /\ UNCHANGED <<cache_dir, temp_dirs, child, rs, clock, ncalls>>

\* interpreter p calls normalize_prompt on the string the call before returned
call_normalize_prompt_again(p) ==
  /\ log[p] = <<"normalize_prompt">>
  /\ log' = [log EXCEPT ![p] = <<"normalize_prompt", "normalize_prompt">>]
  /\ Return(p, Str(normalize_prompt_in(ret[p].s, call[p].hash_order)))
  /\ UNCHANGED <<cache_dir, call, temp_dirs, child, rs, clock, ncalls>>

NextFingerprint ==
  \E p \in Procs :
    \/ \E prompt \in FingerprintPrompts, context \in FingerprintContexts,
          language \in {"python", "x|{}|python"} :
          call_generate_fingerprint(p, prompt, context, language)
    \/ \E prompt \in FingerprintPrompts : call_normalize_prompt(p, prompt)
    \/ call_normalize_prompt_again(p)

SpecFingerprint == InitFingerprint /\ [][NextFingerprint]_vars

\* interpreter p has returned from generate_fingerprint
Fingerprinted(p) == pc[p] = "done" /\ log[p] = <<"generate_fingerprint">>

\* C14: generate_fingerprint returns a fingerprint for every request (a prompt
\* with a context that is JSON data), and the same fingerprint for the same
\* prompt, context, language and template version in whichever interpreter
\* (with whichever order of iteration over the stopword set) it is called.
C14_FingerprintDeterministic ==
  /\ \A p, q \in Procs :
       (/\ Fingerprinted(p) /\ Fingerprinted(q)
        /\ call[p].prompt = call[q].prompt
        /\ call[p].context = call[q].context
        /\ call[p].language = call[q].language
        /\ ret[p].type = "str" /\ ret[q].type = "str") => ret[p].s = ret[q].s
  /\ \A p \in Procs :
       (Fingerprinted(p) /\ json_serializable(call[p].context)) => ret[p].type = "str"

\* two contexts are the same mapping: the same keys with the same values, the
\* nested dicts compared the same way, whatever the order of the items
RECURSIVE same_mapping(_, _)
same_mapping(c, d) ==
  /\ Len(c) = Len(d)
  /\ \A i \in 1..Len(c) : \E j \in 1..Len(d) :
        /\ c[i].k = d[j].k
        /\ is_dict_item(c[i]) = is_dict_item(d[j])
        /\ IF is_dict_item(c[i]) THEN same_mapping(c[i].items, d[j].items)
           ELSE c[i].v = d[j].v

\* C15: two requests with the same prompt and language whose contexts are the
\* same mapping with the keys in another order, at the top level or inside a
\* nested mapping, get the same fingerprint, and so the same cache directory.
C15_ContextKeyOrderIrrelevant ==
  \A p, q \in Procs :
    (/\ Fingerprinted(p) /\ Fingerprinted(q)
     /\ call[p].hash_order = call[q].hash_order
     /\ call[p].prompt = call[q].prompt
     /\ call[p].language = call[q].language
     /\ json_serializable(call[p].context)
     /\ same_mapping(call[p].context, call[q].context)) =>
       /\ ret[p].type = "str" /\ ret[q].type = "str"
       /\ ret[p].s = ret[q].s
       /\ call[p].fingerprint = call[q].fingerprint

\* two interpreters fingerprinted the same prompt with a context holding a
\* nested mapping, the keys of the nested mapping in different orders
C15_Witness ==
  \E p, q \in Procs :
    /\ Fingerprinted(p) /\ Fingerprinted(q)
    /\ call[p].hash_order = call[q].hash_order
    /\ call[p].prompt = call[q].prompt
    /\ call[p].context # call[q].context
    /\ Len(call[p].context) = 1
    /\ is_dict_item(call[p].context[1])
    /\ same_mapping(call[p].context, call[q].context)
    /\ ret[p].type = "str"

\* C16: normalize_prompt applied to a string it returned gives that string
\* back: normalize_prompt(normalize_prompt(p)) = normalize_prompt(p).
C16_NormalizationIdempotent ==
  \A p \in Procs :
    (pc[p] = "done" /\ log[p] = <<"normalize_prompt", "normalize_prompt">>) =>
      ret[p].s = normalize_prompt_in(Chars[call[p].prompt], call[p].hash_order)

\* the run returned after run_script gave it the result dict of an execution
Executed(p) ==
  /\ pc[p] = "done"
  /\ rs[p] # None
  /\ rs[p].success
  /\ rs[p].result.type = "dict"

\* the output field of the result run_script returned ({} when it has none)
ScriptOutput(p) == get(rs[p].result, "output", <<>>)

\* a non-empty select list was given
SelectGiven(p) == call[p].select.type = "list" /\ call[p].select.l # <<>>

C18_SelectNeverFails ==
  \A p \in Procs :
    Executed(p) =>
      /\ ret[p].type = "CapibaraResult"
      /\ ret[p].status = CapibaraResult(rs[p].result).status
      /\ ret[p].artifacts = CapibaraResult(rs[p].result).artifacts
      /\ ret[p].raw = CapibaraResult(rs[p].result).raw

\* C19: when _save_artifacts has stored the artifact of a call, on a
\* fingerprint that held an entry or not, the entry consists of exactly the
\* files of that artifact: its script and manifest, requirements.txt and
\* README.md only if the artifact's are not empty, and no file of an earlier
\* artifact (so that storing an artifact again changes nothing).
C19_StoreOverwritesWholeEntry ==
  \A p \in Procs :
    (pc[p] = "run_script" /\ call[p].path = "generate") =>
      /\ dir_exists(cache_dir, call[p].fingerprint)
      /\ DOMAIN cache_dir[call[p].fingerprint] = DOMAIN artifact_files(call[p].response)
      /\ \A name \in DOMAIN artifact_files(call[p].response) :
            cache_dir[call[p].fingerprint][name] = artifact_files(call[p].response)[name]

\* C20: when clear_cache has returned and nothing has been stored since, the
\* cache root exists and is empty, list_scripts returns the empty list and
\* no fingerprint is a hit; a lookup made on the cleared cache is a miss and
\* goes to the Generator.
C20_ClearEmptiesCache ==
  /\ [](\A p \in Procs :
          (log[p] = <<"clear_cache">> /\ \A q \in Procs : pc[q] \in {"idle", "done"}) =>
             /\ root_exists(cache_dir)
             /\ DOMAIN cache_dir = {}
             /\ list_scripts(cache_dir) = List(<<>>)
             /\ \A prompt \in Prompts, refresh \in BOOLEAN :
                   ~cache_hit(cache_dir, generate_fingerprint(prompt, <<>>, "python"),
                              refresh))
  /\ [][\A p \in Procs :
          (/\ log[p] = <<"clear_cache">>
           /\ pc[p] = "idle" /\ pc'[p] # "idle") =>
             /\ DOMAIN cache_dir' = {}
             /\ pc'[p] = "lookup" => ~cache_hit(cache_dir', call'[p].fingerprint, FALSE)]_vars
  /\ [][\A p \in Procs :
          (pc[p] = "lookup" /\ pc'[p] # "lookup" /\ DOMAIN cache_dir = {}) =>
             (pc'[p] = "generate" /\ call'[p].path = "generate")]_vars

\* clear_cache has returned after a run had generated and stored an artifact
C20_Witness ==
  \E p \in Procs :
    /\ log[p] = <<"clear_cache">>
    /\ pc[p] = "idle"
    /\ call[p].path = "generate"
    /\ call[p].response # None
    /\ call[p].manifest # None
    /\ root_exists(cache_dir)
    /\ list_scripts(cache_dir) = List(<<>>)

\* the step is a call of clear_cache
ClearStep ==
  \E p \in Procs :
    /\ pc[p] \in {"idle", "done"}
    /\ pc'[p] = "idle"
    /\ log'[p] = <<"clear_cache">>
    /\ ncalls' = ncalls

\* the script and the manifest of the entry are the same before and after the step
EntryKept(fingerprint) ==
  /\ ValidEntry(cache_dir', fingerprint)
  /\ cache_dir'[fingerprint]["manifest.json"] = cache_dir[fingerprint]["manifest.json"]
  /\ cache_dir'[fingerprint][cache_dir[fingerprint]["manifest.json"].m.entry]
       = cache_dir[fingerprint][cache_dir[fingerprint]["manifest.json"].m.entry]

\* the step is taken by a run that invoked the Generator and is storing its
\* artifact under the fingerprint
StoreStep(fingerprint) ==
  \E p \in Procs :
    /\ pc[p] \in {"mkdir", "save_script", "save_manifest", "save_requirements", "save_readme"}
    /\ pc'[p] # pc[p]
    /\ call[p].path = "generate"
    /\ InLog(p, "generate")
    /\ call[p].fingerprint = fingerprint

\* C21 as claimed: once a manifest and a script are stored under a fingerprint,
\* no step other than clear_cache changes or removes them; the manifest
\* (created_at included) reads the same in every later state until a clear.
C21_StoredArtifactReadOnly ==
  [][\A fingerprint \in DOMAIN cache_dir :
        (ValidEntry(cache_dir, fingerprint) /\ ~ClearStep) => EntryKept(fingerprint)]_vars

\* C21: once a manifest and a script are stored under a fingerprint, the only
\* steps that change or remove them are clear_cache and the store of a run that
\* invoked the Generator, which a run does only with refresh=true or when its
\* lookup found no manifest; a run that hits the cache never changes them.
C21_StoredArtifactChangedOnlyByStore ==
  /\ [][\A fingerprint \in DOMAIN cache_dir :
          (ValidEntry(cache_dir, fingerprint) /\ ~ClearStep /\ ~StoreStep(fingerprint))
            => EntryKept(fingerprint)]_vars
  /\ [][\A p \in Procs :
          (pc[p] = "lookup" /\ pc'[p] = "generate") =>
             \/ call[p].refresh
             \/ ~file_exists(cache_dir, call[p].fingerprint, "manifest.json")]_vars
  /\ [](\A p \in Procs :
          (pc[p] \in {"mkdir", "save_script", "save_manifest", "save_requirements",
                      "save_readme"}) => call[p].path = "generate")

\* a run that hit the cache executed the stored script and returned, the entry
\* still holding the manifest of the first store
C21_Witness ==
  \E p \in Procs :
    /\ pc[p] = "done"
    /\ call[p].path = "cached"
    /\ InLog(p, "execute")
    /\ ValidEntry(cache_dir, call[p].fingerprint)
    /\ cache_dir[call[p].fingerprint]["manifest.json"].m.created_at = isoformat(Datetime(1))
    /\ ncalls = 2

\* C22: every cache entry written by run is stored under the directory named
\* by its own fingerprint: the fingerprint field of the stored manifest equals
\* the name of the directory that holds it.
C22_EntryUnderOwnFingerprint ==
  \A fingerprint \in DOMAIN cache_dir :
    (file_exists(cache_dir, fingerprint, "manifest.json")
     /\ cache_dir[fingerprint]["manifest.json"].valid) =>
       cache_dir[fingerprint]["manifest.json"].m.fingerprint = fingerprint

(***************************************************************************)
(* Specification: one run() call on a cache directory that holds one       *)
(* stored artifact (a script and a manifest from bounded sets), in a       *)
(* process with a host environment from a bounded set                      *)
(***************************************************************************)
stored_fingerprint == generate_fingerprint("video", <<>>, "python")

StoredScripts ==
  { template_script("video_concat", ""),
    template_script("default", "first\nsecond"),
    template_script("default", "note\n# two"),
    source_script(<<Import(<<"Xlib">>)>>),
    source_script(<<Import(<<"xlib">>)>>),
    source_script(<<Import(<<"json">>), ImportFrom(<<"os", "path">>, 0),
                    ImportFrom(<<>>, 1)>>),
    source_script(<<Import(<<"typing">>), Import(<<"xlib", "display">>)>>),
    source_script(<<invalid_statement>>),
    source_script(<<Import(<<"typing">>), invalid_statement>>),
    source_script(<<Import(<<"typing">>), Import(<<"json">>), Expr("Eval (x)")>>),
    source_script(<<Import(<<"json">>), Expr("os.remove(exec(x))")>>),
    source_script(<<Expr("Eval (x)"), invalid_statement>>) }

\* the allow section of a manifest; no_allow for a manifest that has no such key
no_allow == [section |-> "none"]

StoredAllows ==
  { no_allow,
    [network |-> FALSE, fs |-> <<>>],
    [network |-> TRUE, fs |-> <<>>],
    [network |-> FALSE, fs |-> <<"/data", "/tmp/in">>],
    [network |-> TRUE] }

stored_manifest(deps, allow) ==
  LET base == [fingerprint |-> stored_fingerprint, prompt_sha |-> _hash_prompt("video"),
               entry |-> "script.py", language |-> "python", deps |-> deps,
               template_version |-> "1.0.0", created_at |-> Datetime(0)]
  IN IF allow = no_allow THEN base ELSE ("allow" :> allow) @@ base

StoredManifests ==
  { stored_manifest(deps, allow) :
      deps \in { <<>>, <<"python-xlib==0.33">>, <<"moviepy==1.0.3", "python-Xlib==0.33">> },
      allow \in StoredAllows }

Environs ==
  { host_environ,
    ("CAPIBARA_FS_ALLOWED" :> <<"/">>) @@ host_environ,
    ("CAPIBARA_NETWORK_ALLOWED" :> <<"true">>) @@ host_environ }

StoredStdouts ==
  { <<>>, <<line_blank>>, <<line_text>>, <<line_text, line_ok>>, <<line_ok, line_blank>>,
    <<line_error, line_ok>>, <<line_ok, line_text>>, <<line_ok, line_error>> }

InitStored ==
  /\ \E script \in StoredScripts, manifest \in StoredManifests :
        cache_dir = (stored_fingerprint :>
                       (("script.py" :> script)
                        @@ ("manifest.json" :> manifest_json(manifest))))
  /\ pc = [p \in Procs |-> "idle"]
  /\ \E environ \in Environs :
        call = [p \in Procs |-> [NoCall EXCEPT !.environ = environ]]
  /\ log = [p \in Procs |-> <<>>]
  /\ temp_dirs = {}
  /\ child = [p \in Procs |-> "none"]
  /\ rs = [p \in Procs |-> None]
  /\ ret = [p \in Procs |-> None]
  /\ clock = 1
  /\ ncalls = 0

NextStored ==
  \E p \in Callers :
    \/ \E select \in {None, List(<<"result">>)} :
          pc[p] = "idle" /\ run(p, "video", <<>>, select, FALSE)
    \/ lookup(p)
    \/ load_manifest(p)
    \/ validate(p)
    \/ \E copied \in BOOLEAN : make_temp(p, copied)
    \/ \E created \in BOOLEAN : venv_create(p, created)
    \/ \E outcome \in {"ok", "failed", "timeout"} : install_dependencies(p, outcome)
    \/ \E started \in BOOLEAN : spawn(p, started)
    \/ \E stdout \in StoredStdouts : child_exit(p, stdout, <<>>, Int(0))
    \/ communicate(p)
    \/ timeout_expired(p)
    \/ return_result(p)
    \/ post_run(p)

SpecStored == InitStored /\ [][NextStored]_vars

\* the caller's run on the stored artifact has validated the stored script
Validated(p) == InLog(p, "validate") /\ call[p].script_content # None

\* the root modules the validated script imports, when it parses
ImportedRoots(p) ==
  IF parses(call[p].script_content) THEN _extract_imports(call[p].script_content) ELSE {}

\* the root module is in the allowlist, or is, letter case aside, a substring of
\* a dependency the manifest declares
AllowedAsClaimed(root, manifest) ==
  \/ root \in allowed_imports
  \/ \E i \in 1..Len(manifest.deps) :
        Contains(lower(Chars[manifest.deps[i]]), lower(Chars[root]))

\* C23: an import is accepted exactly when its root module is in the built-in
\* allowlist or is a case-insensitive substring of a declared dependency:
\* the validator reports "Import not allowed" for exactly the other imported
\* roots, and the script is rejected when there is one.
C23_ImportAcceptedIffAllowedOrDeclared ==
  \A p \in Procs :
    (Validated(p) /\ parses(call[p].script_content)) =>
      /\ \A root \in ImportedRoots(p) :
            AllowedAsClaimed(root, call[p].manifest)
            <=> ~\E i \in 1..Len(Violations(p)) :
                    Violations(p)[i] = [violation |-> "Import not allowed", what |-> root]
      /\ (\E root \in ImportedRoots(p) : ~AllowedAsClaimed(root, call[p].manifest))
           <=> (RunScriptReturned(p) /\ ~rs[p].success /\ ~InLog(p, "mktemp"))

\* C24: validation fails closed on a source that does not parse: the violation
\* list run_script gets holds a syntax-error violation (so it is not empty),
\* run_script returns the security failure with that list, and the script is
\* never executed: no temporary directory, no install, no process.
C24_SyntaxErrorFailsClosed ==
  \A p \in Procs :
    (Validated(p) /\ ~parses(call[p].script_content)) =>
      /\ RunScriptReturned(p)
      /\ ~rs[p].success
      /\ rs[p].result.type = "dict"
      /\ rs[p].result.d.message = "Security validation failed"
      /\ rs[p].result.d.errors # <<>>
      /\ \E i \in 1..Len(rs[p].result.d.errors) :
            rs[p].result.d.errors[i].violation = "Syntax error in script"
      /\ ~InLog(p, "mktemp") /\ ~InLog(p, "install") /\ ~InLog(p, "execute")
      /\ p \notin temp_dirs
      /\ child[p] = "none"
      /\ call[p].env = None
      /\ pc[p] = "done" => (ret[p].type = "CapibaraResult" /\ ret[p].status = "error")

\* a run has returned an error for a stored script that does not parse: the
\* default template with a prompt whose second line is no statement
C24_Witness ==
  \E p \in Procs :
    /\ pc[p] = "done"
    /\ Validated(p)
    /\ call[p].script_content = template_script("default", "first\nsecond")
    /\ ~parses(call[p].script_content)
    /\ ret[p].type = "CapibaraResult"
    /\ ret[p].status = "error"

\* the last line of stdout that is not blank is the line `line`
LastNonEmptyLine(stdout, line) ==
  \E i \in 1..Len(stdout) :
    /\ stdout[i] = line
    /\ \A j \in (i + 1)..Len(stdout) : stdout[j] = line_blank

\* the script of the call ran to its end and its output was collected
OutputParsed(p) == InLog(p, "execute") /\ ~InLog(p, "timeout") /\ RunScriptReturned(p)

\* C25: when the last non-empty line of stdout is the JSON object
\* {"status": "ok", "artifacts": [], "output": {"result": 8}, "raw": {}}, that
\* object is the result run_script returns, whatever was printed before it
\* (text, another result object) and whether or not blank lines follow, and a
\* run without select returns its status, artifacts, output and raw unchanged.
C25_LastLineIsResult ==
  \A p \in Procs :
    (OutputParsed(p) /\ LastNonEmptyLine(call[p].stdout, line_ok)) =>
      /\ rs[p].success
      /\ rs[p].result = Dict([status |-> "ok", artifacts |-> <<>>,
                              output |-> [result |-> 8], raw |-> <<>>])
      /\ (pc[p] = "done" /\ call[p].select = None) =>
            /\ ret[p].type = "CapibaraResult"
            /\ ret[p].status = "ok"
            /\ ret[p].artifacts = <<>>
            /\ ret[p].output = [result |-> 8]
            /\ ret[p].raw = <<>>

\* a run without select returned the object of the last line, printed after
\* the line of an error result and followed by nothing
C25_Witness ==
  \E p \in Procs :
    /\ pc[p] = "done"
    /\ OutputParsed(p)
    /\ call[p].select = None
    /\ call[p].stdout = <<line_error, line_ok>>
    /\ ret[p].type = "CapibaraResult"
    /\ ret[p].output = [result |-> 8]

\* stdout is not empty and its last non-empty line is not JSON: it is text, or
\* every line is blank
LastLineNotJson(stdout) ==
  /\ stdout # <<>>
  /\ \/ LastNonEmptyLine(stdout, line_text)
     \/ \A i \in 1..Len(stdout) : stdout[i] = line_blank

\* C26: the parse of the output fails hard only when stdout is entirely empty:
\* the result then has status "error", the message "No output from script" and
\* stdout and stderr in raw; when stdout is not empty and its last line is not
\* valid JSON the result has status "ok", output {raw_output: the whole stdout}
\* and raw {stdout, stderr}.
C26_HardFailureOnlyOnEmptyStdout ==
  \A p \in Procs :
    OutputParsed(p) =>
      /\ rs[p].success
      /\ call[p].stdout = <<>> =>
           /\ rs[p].result = Dict([status |-> "error",
                                   message |-> "No output from script",
                                   raw |-> [stdout |-> <<>>, stderr |-> call[p].stderr]])
           /\ pc[p] = "done" =>
                /\ ret[p].type = "CapibaraResult"
                /\ ret[p].status = "error"
                /\ ret[p].raw = [stdout |-> <<>>, stderr |-> call[p].stderr]
      /\ LastLineNotJson(call[p].stdout) =>
           /\ rs[p].result = Dict([status |-> "ok", artifacts |-> <<>>,
                                   output |-> [raw_output |-> call[p].stdout],
                                   raw |-> [stdout |-> call[p].stdout, stderr |-> call[p].stderr]])
           /\ (pc[p] = "done" /\ call[p].select = None) =>
                /\ ret[p].type = "CapibaraResult"
                /\ ret[p].status = "ok"
                /\ ret[p].output = [raw_output |-> call[p].stdout]
      /\ call[p].stdout # <<>> =>
           (rs[p].result.type = "dict" =>
              get(rs[p].result, "message", "") # "No output from script")

\* a run returned ok for a script that printed a result object and then a line
\* of text
C26_Witness ==
  \E p \in Procs :
    /\ pc[p] = "done"
    /\ OutputParsed(p)
    /\ call[p].select = None
    /\ call[p].stdout = <<line_ok, line_text>>
    /\ ret[p].type = "CapibaraResult"
    /\ ret[p].status = "ok"
    /\ ret[p].output = [raw_output |-> <<line_ok, line_text>>]

\* C27: when the script fails validation, the RunResult that run returns
\* carries the violation list of the validator: every violation, unchanged
\* and in order.
C27_ViolationsSurfaced ==
  \A p \in Procs :
    (pc[p] = "done" /\ Validated(p) /\ Violations(p) # <<>>) =>
      /\ ret[p].type = "CapibaraResult"
      /\ ret[p].status = "error"
      /\ "errors" \in DOMAIN ret[p].data.d
      /\ ret[p].data.d.errors = Violations(p)

\* the environment of the call has been prepared and handed to subprocess.run
EnvPrepared(p) == call[p].env # None

\* the path prefixes the manifest of the call declares (none without an allow
\* section or without an fs key in it)
DeclaredFs(p) ==
  IF "allow" \in DOMAIN call[p].manifest /\ "fs" \in DOMAIN call[p].manifest.allow
  THEN call[p].manifest.allow.fs ELSE <<>>

\* the network flag the manifest of the call declares
DeclaredNetwork(p) ==
  /\ "allow" \in DOMAIN call[p].manifest
  /\ "network" \in DOMAIN call[p].manifest.allow
  /\ call[p].manifest.allow.network

\* C28: the environment handed to the script holds CAPIBARA_FS_ALLOWED exactly
\* when the manifest declares at least one path prefix, its value the prefixes
\* joined by colons; the variable is absent otherwise, whatever the host
\* environment holds.
C28_FsAllowedIffDeclared ==
  \A p \in Procs :
    EnvPrepared(p) =>
      /\ ("CAPIBARA_FS_ALLOWED" \in DOMAIN call[p].env) <=> (DeclaredFs(p) # <<>>)
      /\ DeclaredFs(p) = <<"/data", "/tmp/in">> =>
            call[p].env["CAPIBARA_FS_ALLOWED"] = <<"/data", ":", "/tmp/in">>

\* C29: the environment handed to the script holds CAPIBARA_NETWORK_ALLOWED
\* with the value "true" when the manifest's network flag is true and "false"
\* otherwise, also when the manifest has no allow section.
C29_NetworkAllowedLowerCase ==
  \A p \in Procs :
    EnvPrepared(p) =>
      /\ "CAPIBARA_NETWORK_ALLOWED" \in DOMAIN call[p].env
      /\ call[p].env["CAPIBARA_NETWORK_ALLOWED"] =
           IF DeclaredNetwork(p) THEN <<"true">> ELSE <<"false">>

(***************************************************************************)
(* Specification: list_scripts called on a cache directory whose           *)
(* subdirectories hold manifests of every shape a file can have            *)
(***************************************************************************)
ListDirs == { <<"a">>, <<"b">>, <<"c">> }

\* the manifest of the artifact stored under a directory name
listed_manifest(fingerprint) ==
  [fingerprint |-> fingerprint, prompt_sha |-> _hash_prompt("add"), entry |-> "script.py",
   language |-> "python", deps |-> <<"moviepy==1.0.3">>,
   allow |-> [network |-> FALSE, fs |-> <<>>], template_version |-> "1.0.0",
   created_at |-> Datetime(1)]

\* what a subdirectory can hold: a stored artifact, a script without manifest,
\* a manifest cut short, {"language": "python"}, an object with the summary's
\* keys and no deps, and the JSON text []
ListedContents(fingerprint) ==
  { ("script.py" :> template_script("default", "add"))
      @@ ("manifest.json" :> manifest_json(listed_manifest(fingerprint))),
    ("script.py" :> template_script("default", "add")),
    ("manifest.json" :> truncated),
    ("manifest.json" :> json_text([language |-> "python"])),
    ("manifest.json" :> json_text([fingerprint |-> fingerprint, prompt_sha |-> <<>>,
                                   language |-> "python",
                                   created_at |-> isoformat(Datetime(2))])),
    ("manifest.json" :> json_text(List(<<>>))) }

InitList ==
  /\ \E present \in SUBSET ListDirs :
       \E contents \in [present -> UNION {ListedContents(d) : d \in ListDirs}] :
          /\ \A d \in present : contents[d] \in ListedContents(d)
          /\ cache_dir = contents
  /\ pc = [p \in Procs |-> "idle"]
  /\ call = [p \in Procs |-> NoCall]
  /\ log = [p \in Procs |-> <<>>]
  /\ temp_dirs = {}
  /\ child = [p \in Procs |-> "none"]
  /\ rs = [p \in Procs |-> None]
  /\ ret = [p \in Procs |-> None]
  /\ clock = 1
  /\ ncalls = 0

\* a call of list_scripts() by a caller that has no run() in progress
call_list_scripts(p) ==
  /\ pc[p] \in {"idle", "done"}
  /\ log' = [log EXCEPT ![p] = <<"list_scripts">>]
  /\ Return(p, list_scripts(cache_dir))
  /\ UNCHANGED <<cache_dir, call, temp_dirs, child, rs, clock, ncalls>>

NextList == \E p \in Callers : call_list_scripts(p) \/ clear_cache(p)

SpecList == InitList /\ [][NextList]_vars

\* list_scripts has returned (or raised) in the caller
Listed(p) == pc[p] = "done" /\ log[p] = <<"list_scripts">>

\* the directory holds a valid manifest: a file that parses to an object with
\* the keys of a summary
HasValidManifest(cache, fingerprint) ==
  /\ file_exists(cache, fingerprint, "manifest.json")
  /\ cache[fingerprint]["manifest.json"].valid
  /\ is_mapping(cache[fingerprint]["manifest.json"].m)
  /\ {"fingerprint", "prompt_sha", "language", "created_at"}
        \subseteq DOMAIN cache[fingerprint]["manifest.json"].m

\* C30: list_scripts returns a list with one summary (fingerprint, prompt_sha,
\* language, created_at, deps) per cache subdirectory that holds a valid
\* manifest and skips every other subdirectory: it never fails on a manifest
\* that is missing, does not parse, or has another shape; and it leaves the
\* cache directory as it was.
C30_ListSkipsInvalidManifests ==
  /\ [](\A p \in Procs :
          Listed(p) =>
            /\ ret[p].type = "list"
            /\ Len(ret[p].l) = Cardinality({d \in DOMAIN cache_dir :
                                              HasValidManifest(cache_dir, d)})
            /\ \A d \in DOMAIN cache_dir :
                 HasValidManifest(cache_dir, d) =>
                   \E i \in 1..Len(ret[p].l) :
                      /\ ret[p].l[i].fingerprint = cache_dir[d]["manifest.json"].m.fingerprint
                      /\ ret[p].l[i].created_at = cache_dir[d]["manifest.json"].m.created_at)
  /\ [][\A p \in Procs :
          (log'[p] = <<"list_scripts">> /\ pc'[p] = "done" /\ ret' # ret) =>
             cache_dir' = cache_dir]_vars

\* caller q loaded, on the cache-hit path, the manifest that caller p's
\* generation path had saved under the same fingerprint
LoadedWhatWasSaved(p, q) ==
  /\ p # q
  /\ call[p].path = "generate"
  /\ call[p].response # None
  /\ call[p].response.status = "ok"
  /\ pc[p] \notin {"generate", "mkdir", "save_script", "save_manifest"}
  /\ call[q].path = "cached"
  /\ call[q].manifest # None
  /\ call[q].fingerprint = call[p].fingerprint

\* C31: a ScriptManifest written to manifest.json by the save path and loaded
\* back by the cache-hit path is equal to the original field by field,
\* created_at, allow and deps included.
C31_ManifestRoundTrip ==
  \A p, q \in Procs :
    LoadedWhatWasSaved(p, q) =>
      /\ DOMAIN call[q].manifest = DOMAIN call[p].response.manifest
      /\ \A field \in DOMAIN call[q].manifest :
            call[q].manifest[field] = call[p].response.manifest[field]

\* C32: a timeout imposed by the caller of run is propagated into the
\* executor: the call is carried out, and the bound of the wait for the script
\* process is the caller's timeout, on the cache-hit and on the generation path.
C32_TimeoutPropagated ==
  \A p \in Procs :
    call[p].timeout # None =>
      /\ pc[p] = "done" => ret[p].type = "CapibaraResult"
      /\ call[p].wait_timeout # None => call[p].wait_timeout = call[p].timeout

(***************************************************************************)
(* Specification: one run() call by each of two callers that share the     *)
(* cache directory, for requests with different fingerprints, their steps  *)
(* interleaved                                                             *)
(***************************************************************************)
NextIndependent ==
  \E p \in Procs :
    \/ \E prompt \in {"video", "add"}, refresh \in BOOLEAN :
          /\ \A q \in Procs \ {p} : call[q].prompt # prompt
          /\ run(p, prompt, <<>>, None, refresh)
    \/ lookup(p)
    \/ load_manifest(p)
    \/ \E llm_ok \in BOOLEAN : generate(p, llm_ok)
    \/ make_script_dir(p)
    \/ save_script(p)
    \/ \E io_ok \in BOOLEAN : save_manifest(p, io_ok)
    \/ save_requirements(p)
    \/ save_readme(p)
    \/ validate(p)
    \/ \E copied \in BOOLEAN : make_temp(p, copied)
    \/ \E created \in BOOLEAN : venv_create(p, created)
    \/ \E outcome \in {"ok", "failed", "timeout"} : install_dependencies(p, outcome)
    \/ \E started \in BOOLEAN : spawn(p, started)
    \/ \E stdout \in ConcurrentStdouts : child_exit(p, stdout, <<>>, Int(0))
    \/ communicate(p)
    \/ timeout_expired(p)
    \/ return_result(p)
    \/ post_run(p)

SpecIndependent == Init /\ [][NextIndependent]_vars

\* caller p takes the step: something of its own call changes
StepOf(p) ==
  pc'[p] # pc[p] \/ call'[p] # call[p] \/ child'[p] # child[p] \/ log'[p] # log[p]

\* the cache directories other than the one of caller p's fingerprint, before
\* and after a step
OtherEntries(p) ==
  (DOMAIN cache_dir \cup DOMAIN cache_dir') \ {call[p].fingerprint, call'[p].fingerprint}

\* C33: run calls for different fingerprints are independent. No step of a
\* call creates, removes or changes a cache directory other than the one of
\* its own fingerprint; the script a call validates and the manifest it uses
\* on the generation path are the ones it generated itself; and once it has
\* stored its artifact the entry of its fingerprint is that artifact, whatever
\* the steps of the other call interleaved with it - which is what the calls
\* leave, and work from, when they run one after the other in either order.
C33_DifferentFingerprintsIndependent ==
  /\ \A p \in Procs :
       /\ (call[p].path = "generate" /\ Validated(p)) =>
             /\ call[p].script_content = call[p].response.script
             /\ call[p].manifest = call[p].response.manifest
       /\ (InLog(p, "persist") /\ pc[p] # "done") =>
             /\ dir_exists(cache_dir, call[p].fingerprint)
             /\ cache_dir[call[p].fingerprint] = artifact_files(call[p].response)
       /\ p \in temp_dirs => pc[p] \in {"install", "pip", "spawn", "wait", "return"}
  /\ [][\A p \in Procs :
          StepOf(p) =>
            \A d \in OtherEntries(p) :
              /\ d \in DOMAIN cache_dir
              /\ d \in DOMAIN cache_dir'
              /\ cache_dir'[d] = cache_dir[d]]_vars

\* two calls for different fingerprints are under way together: one waits for
\* its script process while the other is storing its artifact
C33_Witness ==
  /\ pc[1] = "wait"
  /\ InLog(1, "persist")
  /\ pc[2] = "save_manifest"
  /\ call[1].fingerprint # call[2].fingerprint
  /\ dir_exists(cache_dir, call[1].fingerprint)
  /\ dir_exists(cache_dir, call[2].fingerprint)

\* the violation list run_script got from validate_script for the script it
\* read: the errors of the security failure it returned, none when it went on
SecurityErrors(p) ==
  IF pc[p] = "mktemp" \/ InLog(p, "mktemp") THEN <<>> ELSE rs[p].result.d.errors

\* the denylist patterns (by index) that match the validated source, letter
\* case aside
MatchingPatterns(p) ==
  {i \in 1..Len(blocked_patterns) :
     \E text \in searched_texts(call[p].script_content) :
        re_search(blocked_patterns[i], text)}

\* the imported root modules of the validated source that the import check
\* does not allow
DisallowedRoots(p) ==
  {root \in ImportedRoots(p) : ~_is_import_allowed(root, call[p].manifest)}

\* C34: validate_script runs both checks and concatenates their results: the
\* list holds one "Blocked pattern detected" violation per denylist pattern
\* that matches the source case-insensitively, in denylist order, and after
\* them one "Import not allowed" violation per disallowed imported root
\* module (the syntax error instead when the source does not parse); a
\* pattern match does not suppress the import check, nor the reverse.
C34_BothChecksConcatenated ==
  \A p \in Procs :
    Validated(p) =>
      LET e == SecurityErrors(p)
          M == MatchingPatterns(p)
          n == Cardinality(M)
          nth(k) == CHOOSE i \in M : Cardinality({j \in M : j < i}) = k - 1
      IN /\ Len(e) >= n
         /\ \A k \in 1..n :
               e[k] = [violation |-> "Blocked pattern detected",
                       what |-> blocked_patterns[nth(k)].re]
         /\ \A k \in (n + 1)..Len(e) : e[k].violation # "Blocked pattern detected"
         /\ parses(call[p].script_content) =>
               /\ Len(e) = n + Cardinality(DisallowedRoots(p))
               /\ \A k \in (n + 1)..Len(e) :
                     /\ e[k].violation = "Import not allowed"
                     /\ e[k].what \in DisallowedRoots(p)
               /\ \A root \in DisallowedRoots(p) :
                     \E k \in (n + 1)..Len(e) : e[k].what = root

\* a run was refused with a pattern violation followed by an import violation,
\* for a script whose pattern match is in another letter case than the pattern
C34_Witness ==
  \E p \in Procs :
    /\ pc[p] = "done"
    /\ Validated(p)
    /\ Len(SecurityErrors(p)) = 2
    /\ SecurityErrors(p)[1] = [violation |-> "Blocked pattern detected", what |-> "eval\\s*\\("]
    /\ SecurityErrors(p)[2] = [violation |-> "Import not allowed", what |-> "typing"]

\* a run was refused with two pattern violations in denylist order, the
\* pattern matched later in the text first
C34_WitnessOrder ==
  \E p \in Procs :
    /\ pc[p] = "done"
    /\ Validated(p)
    /\ call[p].script_content =
         source_script(<<Import(<<"json">>), Expr("os.remove(exec(x))")>>)
    /\ Len(SecurityErrors(p)) = 2
    /\ SecurityErrors(p)[1].what = "exec\\s*\\("
    /\ SecurityErrors(p)[2].what = "os\\.remove\\s*\\("

(***************************************************************************)
(* Specification: the run() calls of Spec, with run_script's own steps     *)
(* taken whenever they stay possible. A timeout of subprocess.run expires  *)
(* after its bound, so the wait for pip and the wait for the script end    *)
(* even when the process does not; the processes themselves (the script,   *)
(* and the ensurepip process venv.create waits for without a bound) are    *)
(* under no obligation to end                                              *)
(***************************************************************************)
SpecFair ==
  /\ Init
  /\ [][Next]_vars
  /\ \A p \in Callers :
       WF_vars(\/ validate(p)
               \/ \E copied \in BOOLEAN : make_temp(p, copied)
               \/ \E outcome \in {"ok", "failed", "timeout"} :
                     install_dependencies(p, outcome)
               \/ \E started \in BOOLEAN : spawn(p, started)
               \/ communicate(p)
               \/ timeout_expired(p)
               \/ return_result(p))

\* C35: every call of run_script eventually returns a result: a script that
\* never exits is cut off at the script timeout and a dependency installation
\* that never finishes is cut off at its own bound, so that no execution waits
\* forever, whatever the child processes do.
C35_RunScriptReturns ==
  \A p \in Callers : (pc[p] = "run_script") ~> RunScriptReturned(p)

(***************************************************************************)
(* Specification: one run() call by each of two callers for requests of    *)
(* one fingerprint whose generated scripts differ, their steps             *)
(* interleaved: each call may overwrite the cached script the other has    *)
(* read                                                                    *)
(***************************************************************************)
NextOverwrite ==
  \E p \in Procs :
    \/ \E prompt \in ConcurrentPrompts, refresh \in BOOLEAN :
          pc[p] = "idle" /\ run(p, prompt, <<>>, None, refresh)
    \/ lookup(p)
    \/ load_manifest(p)
    \/ \E llm_ok \in BOOLEAN : generate(p, llm_ok)
    \/ make_script_dir(p)
    \/ save_script(p)
    \/ \E io_ok \in BOOLEAN : save_manifest(p, io_ok)
    \/ save_requirements(p)
    \/ save_readme(p)
    \/ validate(p)
    \/ \E copied \in BOOLEAN : make_temp(p, copied)
    \/ \E created \in BOOLEAN : venv_create(p, created)
    \/ \E outcome \in {"ok", "failed", "timeout"} : install_dependencies(p, outcome)
    \/ \E started \in BOOLEAN : spawn(p, started)
    \/ \E stdout \in { <<line_text, line_ok>> } : child_exit(p, stdout, <<>>, Int(0))
    \/ communicate(p)
    \/ timeout_expired(p)
    \/ return_result(p)
    \/ post_run(p)

SpecOverwrite == Init /\ [][NextOverwrite]_vars

\* C36: the text that is executed is the text that was validated: the script
\* process runs the private copy of the text run_script read once and found
\* free of violations under the manifest of the call, whatever was written to
\* the cached script between the validation and the start of the process.
C36_ExecutedTextIsValidatedText ==
  \A p \in Procs :
    call[p].executed # None =>
      /\ call[p].script_content # None
      /\ call[p].executed = call[p].script_content
      /\ validate_script(call[p].executed, call[p].manifest) = <<>>

\* a script process was started from the copy of the validated text while the
\* cached script holds another text, written by the other caller after the
\* validation
C36_Witness ==
  \E p \in Procs :
    /\ pc[p] = "wait"
    /\ call[p].executed # None
    /\ file_exists(cache_dir, call[p].fingerprint, call[p].manifest.entry)
    /\ cache_dir[call[p].fingerprint][call[p].manifest.entry] # call[p].executed

(***************************************************************************)
(* Specification: the two callers of SpecOverwrite on a cache directory    *)
(* that holds the artifact an earlier run("video") stored: a call that     *)
(* hits the cache runs while the other one stores a new artifact for the   *)
(* same fingerprint                                                        *)
(***************************************************************************)
first_stored == generate_script("video", <<>>, "python", 0, TRUE)

InitHit ==
  /\ cache_dir = (generate_fingerprint("video", <<>>, "python") :> artifact_files(first_stored))
  /\ pc = [p \in Procs |-> "idle"]
  /\ call = [p \in Procs |-> NoCall]
  /\ log = [p \in Procs |-> <<>>]
  /\ temp_dirs = {}
  /\ child = [p \in Procs |-> "none"]
  /\ rs = [p \in Procs |-> None]
  /\ ret = [p \in Procs |-> None]
  /\ clock = 1
  /\ ncalls = 0

SpecHit == InitHit /\ [][NextOverwrite]_vars

\* the artifacts that have been handed to _save_artifacts: the one stored
\* first and the ones the calls in progress generated
WrittenArtifacts ==
  {first_stored}
  \cup {call[p].response :
          p \in {x \in Procs : call[x].response # None /\ call[x].response.status = "ok"}}

\* C37: a run that takes the cache-hit path while another run writes the same
\* fingerprint executes a script and uses a manifest that one and the same
\* write stored: never the script of one artifact with the dependencies and
\* permissions of the manifest of another.
C37_HitUsesOneArtifact ==
  \A q \in Procs :
    (call[q].path = "cached" /\ call[q].executed # None) =>
      \E artifact \in WrittenArtifacts :
        /\ call[q].executed = artifact.script
        /\ call[q].manifest = model_dump_json(artifact.manifest)

\* the tuple generate_fingerprint composes the hashed string from, for the
\* request of interpreter p: normalized prompt, normalized context, language
\* and template version
PreHashTuple(p) ==
  <<normalize_prompt_in(Chars[call[p].prompt], call[p].hash_order),
    normalize_context(call[p].context), Chars[call[p].language], Chars["1.0.0"]>>

\* C38: the string that is hashed identifies the request: two requests whose
\* (normalized prompt, normalized context, language, template_version) tuples
\* differ get different strings, and so different fingerprints short of a
\* digest collision, also when a field contains the separator "|".
C38_PreHashUnambiguous ==
  \A p, q \in Procs :
    (/\ Fingerprinted(p) /\ Fingerprinted(q)
     /\ ret[p].type = "str" /\ ret[q].type = "str"
     /\ PreHashTuple(p) # PreHashTuple(q)) => ret[p].s # ret[q].s

\* C39: for every prompt that falls through to the default template of the
\* built-in generator, the generated script parses and passes validation
\* against its own manifest, so that the miss path goes on to execution: the
\* prompt text embedded in the script introduces no violation.
C39_DefaultTemplatePassesValidation ==
  \A p \in Procs :
    (/\ call[p].path = "generate"
     /\ Validated(p)
     /\ call[p].script_content = call[p].response.script
     /\ call[p].response.script.template = "default") =>
      /\ parses(call[p].script_content)
      /\ pc[p] = "mktemp" \/ InLog(p, "mktemp")

(***************************************************************************)
(* Specification: one run("add") call by each of two callers on a cache    *)
(* that holds the artifact an earlier run("add") stored (the default       *)
(* template, no dependencies); the script process of each ends with an     *)
(* output, an error output and an exit status from bounded sets, or is cut *)
(* off, or cannot be started                                               *)
(***************************************************************************)
InitExecute ==
  /\ cache_dir = (generate_fingerprint("add", <<>>, "python")
                    :> artifact_files(generate_script("add", <<>>, "python", 0, TRUE)))
  /\ pc = [p \in Procs |-> "idle"]
  /\ call = [p \in Procs |-> NoCall]
  /\ log = [p \in Procs |-> <<>>]
  /\ temp_dirs = {}
  /\ child = [p \in Procs |-> "none"]
  /\ rs = [p \in Procs |-> None]
  /\ ret = [p \in Procs |-> None]
  /\ clock = 1
  /\ ncalls = 0

NextExecute ==
  \E p \in Procs :
    \/ pc[p] = "idle" /\ run(p, "add", <<>>, None, FALSE)
    \/ lookup(p)
    \/ load_manifest(p)
    \/ validate(p)
    \/ \E copied \in BOOLEAN : make_temp(p, copied)
    \/ \E started \in BOOLEAN : spawn(p, started)
    \/ \E stdout \in { <<>>, <<line_text>>, <<line_text, line_ok>> },
          stderr \in { <<>>, <<line_text>> }, returncode \in { Int(0), Int(1) } :
          child_exit(p, stdout, stderr, returncode)
    \/ communicate(p)
    \/ timeout_expired(p)
    \/ return_result(p)
    \/ post_run(p)

SpecExecute == InitExecute /\ [][NextExecute]_vars

\* run_script of caller p started the script process and has returned
Ran(p) == InLog(p, "execute") /\ RunScriptReturned(p)

\* the wait for the script process of caller p was cut off by the timeout
TimedOut(p) == InLog(p, "timeout")

\* run_script of caller p got as far as starting the script process, and has
\* returned
SubprocessStageReturned(p) == call[p].env # None /\ RunScriptReturned(p)

\* C40 as stated: the result of an execution depends only on the stdout of the
\* script and on whether the timeout expired, never on the exit status: two
\* executions with the same stdout and the same timeout outcome have the same
\* result; a script that exits non-zero after output that is not JSON gets
\* status "ok"; and run_script's success flag is true whenever the subprocess
\* stage was reached.
C40_ResultFromStdoutAndTimeout ==
  /\ \A p, q \in Procs :
       (/\ Ran(p) /\ Ran(q)
        /\ TimedOut(p) = TimedOut(q)
        /\ call[p].stdout = call[q].stdout) => rs[p].result = rs[q].result
  /\ \A p \in Procs :
       SubprocessStageReturned(p) =>
         /\ rs[p].success
         /\ (call[p].returncode = Int(1) /\ LastLineNotJson(call[p].stdout)) =>
               rs[p].result.d.status = "ok"

\* C40, amended: the result of an execution depends only on what the script
\* wrote to stdout and to stderr (which the fallback result and the no-output
\* result carry in raw) and on whether the timeout expired, never on the exit
\* status: two executions with the same stdout, the same stderr and the same
\* timeout outcome have the same result; a script that exits non-zero after
\* output that is not JSON gets status "ok"; and run_script's success flag is
\* true whenever the subprocess stage was reached, timeout and empty output
\* included.
C40_ResultFromOutputAndTimeout ==
  /\ \A p, q \in Procs :
       (/\ Ran(p) /\ Ran(q)
        /\ TimedOut(p) = TimedOut(q)
        /\ call[p].stdout = call[q].stdout
        /\ call[p].stderr = call[q].stderr) => rs[p].result = rs[q].result
  /\ \A p \in Procs :
       SubprocessStageReturned(p) =>
         /\ rs[p].success
         /\ (call[p].returncode = Int(1) /\ LastLineNotJson(call[p].stdout)) =>
               rs[p].result.d.status = "ok"

\* two scripts wrote the same text that is not JSON, one exited with status 0
\* and the other with status 1: both calls returned status "ok"
C40_Witness ==
  /\ pc[1] = "done" /\ pc[2] = "done"
  /\ call[1].stdout = <<line_text>> /\ call[2].stdout = <<line_text>>
  /\ call[1].stderr = call[2].stderr
  /\ call[1].returncode = Int(0)
  /\ call[2].returncode = Int(1)
  /\ ret[1].type = "CapibaraResult" /\ ret[1].status = "ok"
  /\ ret[2].type = "CapibaraResult" /\ ret[2].status = "ok"
====
